---- MODULE Spec2Model ----
(***************************************************************************)
(* Model of the penny_assistant application: the configuration snapshot    *)
(* (backend/config_reader.py), the three service facades constructed from  *)
(* it (enhanced_lists.py, enhanced_rag.py, enhanced_calendar.py) and the   *)
(* client functions of the Streamlit process (streamlit/utils.py).         *)
(*                                                                         *)
(* Every method is an operator that maps the object's state, the stores    *)
(* and the outcome of each external call (client call returns or raises,   *)
(* file read/write succeeds or fails, HTTP request answers or fails) to    *)
(* the method's result and the new state.  An action applies one method    *)
(* and records the call in the variable last.                              *)
(*                                                                         *)
(* Spec is the backend process as its routes drive the facades; ApiSpec    *)
(* adds the public methods no route calls (reload_config, the accessors    *)
(* of ConfigReader, the initialize methods); ClientSpec is the Streamlit   *)
(* process, with the backend going up and down; GcpSpec is the GCPManager  *)
(* of src/cli/utils/gcp.py; TextSpec is clean_text of chat_utils.py;       *)
(* ThreadSpec is two request threads of the lists routes working on the    *)
(* local list file, one file operation per step.                           *)
(***************************************************************************)
EXTENDS Integers, Sequences, FiniteSets, TLC

VARIABLES
    module,            \* the module whose objects the process drives
    setup_status,      \* config_reader.setup_status (the snapshot)
    lists_service,     \* the EnhancedLists instance
    local_file,        \* local_lists.json
    fs_docs,           \* the documents of the Firestore collection
    next_id,           \* freshness of uuid4 / Firestore auto ids
    rag_system,        \* the EnhancedRAG instance
    emb_file,          \* pdf_embeddings.json
    vs_index,          \* datapoints upserted to the Vector Search index
    calendar_service,  \* the EnhancedCalendar instance
    backend,           \* whether the Streamlit process can reach the backend
    gcp_managers,      \* the GCPManager instances and their cached objects
    objects,           \* objects created so far (identity of an object)
    text,              \* the text a ChatProcessor is cleaning
    threads,           \* the request threads of the lists routes
    file_bytes,        \* the bytes of local_lists.json: JSON, empty or garbled
    last               \* the last facade call: arguments, outcome, tiers invoked

vars == <<module, setup_status, lists_service, local_file, fs_docs, next_id,
          rag_system, emb_file, vs_index, calendar_service, backend,
          gcp_managers, objects, text, threads, file_bytes, last>>

\* A Python str is the sequence of its characters; NoText is None.
NoText == [is_none |-> TRUE, s |-> <<>>]
Str(s) == [is_none |-> FALSE, s |-> s]

(***************************************************************************)
(* Bounds and input domains                                                *)
(***************************************************************************)
MaxIds == 2        \* ids minted per behaviour (create_list calls)
MaxStored == 2     \* records kept in pdf_embeddings.json / the index
MaxChunks == 2     \* length of one embeddings / metadata argument
MaxLen == 4        \* longest text given to clean_text
MaxObjects == 3    \* objects google.auth.default and ClientInfo() create
MaxStatuses == 2   \* statuses of get_backend_status a call record remembers
MaxResults == 3    \* largest max_results asked of get_calendar_events

Users == {"u1", "u2"}
Names == {"Groceries"}
ItemSeqs == {<<"milk", "eggs">>, <<"eggs", "milk">>}
Ids == 1..MaxIds
Queries == {"q1", "q2"}
Chunks == {"c1", "c2"}      \* chunks given to embed_text_chunks
StoredChunks == {"c1"}      \* chunks of the embeddings given to store_embeddings

ClientOutcomes == {"ok", "raise"}              \* an external client call
FileOutcomes == {"ok", "read_fail", "write_fail"}  \* open()/json on a local file

(***************************************************************************)
(* Helpers on ordered mappings (a Python dict / a JSON object is modelled  *)
(* as the sequence of its entries in insertion order, each with its key in *)
(* the field id).                                                          *)
(***************************************************************************)
KeysOf(data) == {data[i].id : i \in 1..Len(data)}

RemoveKey(data, k) == SelectSeq(data, LAMBDA entry : entry.id # k)

\* SetItems extending the stored items instead of replacing them
SetItems_extending(data, k, items) ==
    [i \in 1..Len(data) |->
        IF data[i].id = k
        THEN [data[i] EXCEPT !.items = @ \o items, !.updated_at = "t_update"]
        ELSE data[i]]

\* SetItems writing the time of the update into created_at as well
SetItems_restamping(data, k, items) ==
    [i \in 1..Len(data) |->
        IF data[i].id = k
        THEN [data[i] EXCEPT !.items = items, !.updated_at = "t_update",
                             !.created_at = "t_update"]
        ELSE data[i]]

\* data[k]["items"] = items; data[k]["updated_at"] = datetime.now()
SetItems(data, k, items) ==
    [i \in 1..Len(data) |->
        IF data[i].id = k
        THEN [data[i] EXCEPT !.items = items, !.updated_at = "t_update"]
        ELSE data[i]]

(***************************************************************************)
(* config_reader.py                                                        *)
(***************************************************************************)
Services == {"firestore", "calendar", "vertex_ai", "vector_search"}

\* One entry of the snapshot: the service's key is absent from the file, or
\* present with "configured" false or true.
EntryStates == {"absent", "off", "on"}

\* A value json.load can return is modelled as a function of these keys: the
\* entry of each service, the calendar entry's credentials_file, and under
\* "type" the Python type of the value itself (a JSON object loads as a
\* dict, a JSON array as a list, which has no keys).
SnapshotKeys == Services \cup {"credentials_file", "type"}

\* the dict returned at the end of load_setup_status
DefaultSnapshot ==
    [k \in SnapshotKeys |->
        CASE k = "type" -> "dict"
          [] k = "credentials_file" -> "None"
          [] OTHER -> "off"]

\* json.load of a file that holds a JSON array
ListSnapshot ==
    [k \in SnapshotKeys |->
        CASE k = "type" -> "list"
          [] k = "credentials_file" -> "None"
          [] OTHER -> "absent"]

\* A configuration file on disk: absent, present but failing open()/json.load
\* ("unreadable"), or present and parsing to the value json.
ConfigFile(state, json) == [state |-> state, json |-> json]

\* The backend file is returned as parsed.  The frontend file is read when
\* the backend file is absent or failed; config.get("project_id") raises
\* inside the try when the parsed value is not a dict.
load_setup_status(config_file, frontend_config_file) ==
    IF config_file.state = "json" THEN config_file.json
    ELSE IF frontend_config_file.state = "json"
            /\ frontend_config_file.json["type"] = "dict"
         THEN frontend_config_file.json
         ELSE DefaultSnapshot

\* self.setup_status.get(...) raises AttributeError when the snapshot is not
\* a dict; every accessor of ConfigReader starts with it.
get_raises == setup_status["type"] # "dict"

is_service_configured(service_name) == setup_status[service_name] = "on"

\* get_service_config(service_name) as the set of keys of the mapping it
\* returns: empty when the service's entry is absent.
get_service_config(service_name) ==
    IF setup_status[service_name] = "absent" THEN {}
    ELSE IF service_name = "calendar"
         THEN {"configured", "credentials_file"}
         ELSE {"configured"}

\* get_service_config("vector_search").get("index_name", <default>)
index_name == "penny-assistant-index"

\* get_service_config("vertex_ai").get("embedding_model", <default>)
embedding_model == "textembedding-gecko@001"

\* get_service_config("calendar").get("credentials_file"): None (FALSE) when
\* the calendar entry is absent or names no file.
credentials_file ==
    /\ setup_status["calendar"] # "absent"
    /\ setup_status["credentials_file"] # "None"

(***************************************************************************)
(* Result values.  Every facade method returns one record of this shape;   *)
(* the fields a method does not return keep the value of NoRet.            *)
(***************************************************************************)
NoRet ==
    [status |-> "none", id |-> 0, lists |-> <<>>, storage |-> "none",
     message |-> "none", source |-> "none", count |-> 0, stored_count |-> 0,
     storage_method |-> <<>>, method |-> "none", answer |-> <<>>,
     embeddings |-> <<>>, events |-> <<>>, embedding_method |-> <<>>,
     configured |-> FALSE, config |-> {}, snapshot |-> DefaultSnapshot,
     type |-> "none", keys |-> {}, credentials |-> 0, project |-> "None",
     client_info |-> 0, text |-> NoText]

\* An outcome of a method: the returned value, the new facade and stores,
\* the tiers it invoked in order, the tier that did the work ("none" when
\* no tier did) and whether an exception left the method.
Outcome(ret, svc, file, docs, nid, calls, served, raised) ==
    [ret |-> ret, svc |-> svc, file |-> file, docs |-> docs, nid |-> nid,
     calls |-> calls, served |-> served, raised |-> raised]

(***************************************************************************)
(* enhanced_lists.py                                                       *)
(***************************************************************************)
\* created_at and updated_at hold datetime.now() of the creation; an update
\* writes the datetime.now() of its own call.
NewList(list_id, user_id, name) ==
    [id |-> list_id, user_id |-> user_id, name |-> name, items |-> <<>>,
     created_at |-> "t_create", updated_at |-> "t_create"]

\* open(local_storage_file, 'r') + json.load: fails when the file is absent
\* or the read fails.
ReadFails(file, e) == ~file.exists \/ e.file = "read_fail"

\* initialize_local_storage removing a file it finds instead of keeping it
initialize_local_storage_recreating(svc, file, e) ==
    LET svc1 == [svc EXCEPT !.db = FALSE] IN
    IF file.exists
    THEN [svc |-> svc1, file |-> [exists |-> FALSE, data |-> <<>>],
          raised |-> FALSE]
    ELSE IF e.file = "write_fail"
         THEN [svc |-> svc1, file |-> file, raised |-> TRUE]
         ELSE [svc |-> svc1, file |-> [exists |-> TRUE, data |-> <<>>],
               raised |-> FALSE]

initialize_local_storage(svc, file, e) ==
    LET svc1 == [svc EXCEPT !.db = FALSE] IN
    IF file.exists THEN [svc |-> svc1, file |-> file, raised |-> FALSE]
    ELSE IF e.file = "write_fail"
         THEN [svc |-> svc1, file |-> file, raised |-> TRUE]
         ELSE [svc |-> svc1, file |-> [exists |-> TRUE, data |-> <<>>],
               raised |-> FALSE]

\* initialize_firestore leaving firestore_configured set when the client fails
initialize_firestore_keeping_flag(svc, file, e) ==
    IF e.client = "ok" /\ ~get_raises
    THEN [svc |-> [svc EXCEPT !.db = TRUE], file |-> file, raised |-> FALSE]
    ELSE initialize_local_storage(svc, file, e)

\* get_project_id and get_service_config are read inside the try
initialize_firestore(svc, file, e) ==
    IF e.client = "ok" /\ ~get_raises
    THEN [svc |-> [svc EXCEPT !.db = TRUE], file |-> file, raised |-> FALSE]
    ELSE initialize_local_storage(
             [svc EXCEPT !.firestore_configured = FALSE], file, e)

\* is_service_configured raises out of __init__ when the snapshot is not a
\* dict; so does initialize_local_storage when it cannot create the file.
EnhancedLists_init(file, e) ==
    LET svc == [obj |-> "built",
                firestore_configured |-> is_service_configured("firestore"),
                db |-> FALSE]
        r == IF svc.firestore_configured
             THEN initialize_firestore(svc, file, e)
             ELSE initialize_local_storage(svc, file, e)
    IN  IF get_raises
        THEN [svc |-> [svc EXCEPT !.obj = "failed"], file |-> file,
              raised |-> TRUE]
        ELSE IF r.raised THEN [r EXCEPT !.svc.obj = "failed"] ELSE r

FirestoreReady(svc) == svc.firestore_configured /\ svc.db

_create_local_list(svc, file, docs, nid, user_id, name, e, calls) ==
    IF ReadFails(file, e) \/ e.file = "write_fail"
    THEN Outcome([NoRet EXCEPT !.id = nid], svc, file, docs, nid + 1,
                 Append(calls, "local"), "none", FALSE)
    ELSE Outcome([NoRet EXCEPT !.id = nid], svc,
                 [file EXCEPT !.data = Append(@, NewList(nid, user_id, name))],
                 docs, nid + 1, Append(calls, "local"), "local", FALSE)

\* _create_firestore_list demoting the Firestore tier when the call raises
_create_firestore_list_demoting(svc, file, docs, nid, user_id, name, e) ==
    IF e.client = "ok"
    THEN Outcome([NoRet EXCEPT !.id = nid], svc, file,
                 Append(docs, NewList(nid, user_id, name)), nid + 1,
                 <<"firestore">>, "firestore", FALSE)
    ELSE _create_local_list([svc EXCEPT !.firestore_configured = FALSE], file,
                            docs, nid, user_id, name, e, <<"firestore">>)

_create_firestore_list(svc, file, docs, nid, user_id, name, e) ==
    IF e.client = "ok"
    THEN Outcome([NoRet EXCEPT !.id = nid], svc, file,
                 Append(docs, NewList(nid, user_id, name)), nid + 1,
                 <<"firestore">>, "firestore", FALSE)
    ELSE _create_local_list(svc, file, docs, nid, user_id, name, e,
                            <<"firestore">>)

create_list(svc, file, docs, nid, user_id, name, e) ==
    IF FirestoreReady(svc)
    THEN _create_firestore_list(svc, file, docs, nid, user_id, name, e)
    ELSE _create_local_list(svc, file, docs, nid, user_id, name, e, <<>>)

\* _get_local_lists without the test of user_id
_get_local_lists_of_all(svc, file, docs, nid, user_id, e, calls) ==
    IF ReadFails(file, e)
    THEN Outcome(NoRet, svc, file, docs, nid, Append(calls, "local"),
                 "none", FALSE)
    ELSE Outcome([NoRet EXCEPT !.lists = file.data],
                 svc, file, docs, nid, Append(calls, "local"), "local", FALSE)

_get_local_lists(svc, file, docs, nid, user_id, e, calls) ==
    IF ReadFails(file, e)
    THEN Outcome(NoRet, svc, file, docs, nid, Append(calls, "local"),
                 "none", FALSE)
    ELSE Outcome([NoRet EXCEPT !.lists =
                     SelectSeq(file.data, LAMBDA l : l.user_id = user_id)],
                 svc, file, docs, nid, Append(calls, "local"), "local", FALSE)

_get_firestore_lists(svc, file, docs, nid, user_id, e) ==
    IF e.client = "ok"
    THEN Outcome([NoRet EXCEPT !.lists =
                     SelectSeq(docs, LAMBDA l : l.user_id = user_id)],
                 svc, file, docs, nid, <<"firestore">>, "firestore", FALSE)
    ELSE _get_local_lists(svc, file, docs, nid, user_id, e, <<"firestore">>)

get_lists(svc, file, docs, nid, user_id, e) ==
    IF FirestoreReady(svc)
    THEN _get_firestore_lists(svc, file, docs, nid, user_id, e)
    ELSE _get_local_lists(svc, file, docs, nid, user_id, e, <<>>)

Status(status, storage, message) ==
    [NoRet EXCEPT !.status = status, !.storage = storage, !.message = message]

\* _update_local_list creating the entry when the id is unknown
_update_local_list_upserting(svc, file, docs, nid, list_id, items, e, calls) ==
    IF ReadFails(file, e) \/ e.file = "write_fail"
    THEN Outcome(Status("error", "none", "exception"), svc, file, docs, nid,
                 Append(calls, "local"), "none", FALSE)
    ELSE IF list_id \in KeysOf(file.data)
    THEN Outcome(Status("success", "local", "none"), svc,
                 [file EXCEPT !.data = SetItems(@, list_id, items)],
                 docs, nid, Append(calls, "local"), "local", FALSE)
    ELSE Outcome(Status("success", "local", "none"), svc,
                 [file EXCEPT !.data =
                     Append(@, [NewList(list_id, "", "") EXCEPT !.items = items])],
                 docs, nid, Append(calls, "local"), "local", FALSE)

\* _update_local_list with the tier tag of the Firestore branch
_update_local_list_tagged_firestore(svc, file, docs, nid, list_id, items, e, calls) ==
    IF ReadFails(file, e)
    THEN Outcome(Status("error", "none", "exception"), svc, file, docs, nid,
                 Append(calls, "local"), "none", FALSE)
    ELSE IF list_id \in KeysOf(file.data)
    THEN IF e.file = "write_fail"
         THEN Outcome(Status("error", "none", "exception"), svc, file, docs,
                      nid, Append(calls, "local"), "none", FALSE)
         ELSE Outcome(Status("success", "firestore", "none"), svc,
                      [file EXCEPT !.data = SetItems(@, list_id, items)],
                      docs, nid, Append(calls, "local"), "local", FALSE)
    ELSE Outcome(Status("error", "none", "List not found"), svc, file, docs,
                 nid, Append(calls, "local"), "local", FALSE)

_update_local_list(svc, file, docs, nid, list_id, items, e, calls) ==
    IF ReadFails(file, e)
    THEN Outcome(Status("error", "none", "exception"), svc, file, docs, nid,
                 Append(calls, "local"), "none", FALSE)
    ELSE IF list_id \in KeysOf(file.data)
    THEN IF e.file = "write_fail"
         THEN Outcome(Status("error", "none", "exception"), svc, file, docs,
                      nid, Append(calls, "local"), "none", FALSE)
         ELSE Outcome(Status("success", "local", "none"), svc,
                      [file EXCEPT !.data = SetItems(@, list_id, items)],
                      docs, nid, Append(calls, "local"), "local", FALSE)
    ELSE Outcome(Status("error", "none", "List not found"), svc, file, docs,
                 nid, Append(calls, "local"), "local", FALSE)

\* DocumentReference.update raises NotFound when the document does not exist.
_update_firestore_list(svc, file, docs, nid, list_id, items, e) ==
    IF e.client = "ok" /\ list_id \in KeysOf(docs)
    THEN Outcome(Status("success", "firestore", "none"), svc, file,
                 SetItems(docs, list_id, items), nid, <<"firestore">>,
                 "firestore", FALSE)
    ELSE _update_local_list(svc, file, docs, nid, list_id, items, e,
                            <<"firestore">>)

update_list(svc, file, docs, nid, list_id, items, e) ==
    IF FirestoreReady(svc)
    THEN _update_firestore_list(svc, file, docs, nid, list_id, items, e)
    ELSE _update_local_list(svc, file, docs, nid, list_id, items, e, <<>>)

_delete_local_list(svc, file, docs, nid, list_id, e, calls) ==
    IF ReadFails(file, e)
    THEN Outcome(Status("error", "none", "exception"), svc, file, docs, nid,
                 Append(calls, "local"), "none", FALSE)
    ELSE IF list_id \in KeysOf(file.data)
    THEN IF e.file = "write_fail"
         THEN Outcome(Status("error", "none", "exception"), svc, file, docs,
                      nid, Append(calls, "local"), "none", FALSE)
         ELSE Outcome(Status("success", "local", "none"), svc,
                      [file EXCEPT !.data = RemoveKey(@, list_id)],
                      docs, nid, Append(calls, "local"), "local", FALSE)
    ELSE Outcome(Status("error", "none", "List not found"), svc, file, docs,
                 nid, Append(calls, "local"), "local", FALSE)

\* DocumentReference.delete succeeds whether or not the document exists.
_delete_firestore_list(svc, file, docs, nid, list_id, e) ==
    IF e.client = "ok"
    THEN Outcome(Status("success", "firestore", "none"), svc, file,
                 RemoveKey(docs, list_id), nid, <<"firestore">>,
                 "firestore", FALSE)
    ELSE _delete_local_list(svc, file, docs, nid, list_id, e, <<"firestore">>)

delete_list(svc, file, docs, nid, list_id, e) ==
    IF FirestoreReady(svc)
    THEN _delete_firestore_list(svc, file, docs, nid, list_id, e)
    ELSE _delete_local_list(svc, file, docs, nid, list_id, e, <<>>)

get_list_status(svc, file) ==
    [firestore_configured |-> svc.firestore_configured,
     local_storage_available |-> file.exists,
     storage_method |-> IF svc.firestore_configured THEN "firestore"
                        ELSE "local"]

(***************************************************************************)
(* enhanced_rag.py                                                         *)
(***************************************************************************)
\* get_project_id and get_region are read inside the try
initialize_vertex_ai(svc, e) ==
    IF e.embed = "ok" /\ ~get_raises THEN svc
    ELSE [svc EXCEPT !.vertex_ai_configured = FALSE]

initialize_vector_search(svc, e) ==
    IF e.client = "ok" /\ ~get_raises THEN svc
    ELSE [svc EXCEPT !.vector_search_configured = FALSE]

\* is_service_configured raises out of __init__ when the snapshot is not a
\* dict (obj = "failed").
EnhancedRAG_init(e) ==
    LET svc0 == [obj |-> "built",
                 vertex_ai_configured |-> is_service_configured("vertex_ai"),
                 vector_search_configured |->
                     is_service_configured("vector_search")]
        svc1 == IF svc0.vertex_ai_configured
                THEN initialize_vertex_ai(svc0, e) ELSE svc0
    IN  IF get_raises THEN [svc0 EXCEPT !.obj = "failed"]
        ELSE IF svc1.vector_search_configured
             THEN initialize_vector_search(svc1, e) ELSE svc1

\* get_storage_method reads the index name from the current snapshot when
\* vector_search_configured is set, outside any try.
get_storage_method_raises(svc) == svc.vector_search_configured /\ get_raises

get_storage_method(svc) ==
    IF svc.vector_search_configured
    THEN <<"Vertex AI Vector Search", index_name>>
    ELSE IF svc.vertex_ai_configured
         THEN <<"Vertex AI Embeddings (Local Storage)">>
         ELSE <<"Local JSON Storage">>

\* get_embedding_method reads the model name from the current snapshot when
\* vertex_ai_configured is set, outside any try.
get_embedding_method_raises(svc) == svc.vertex_ai_configured /\ get_raises

get_embedding_method(svc) ==
    IF svc.vertex_ai_configured THEN <<"Vertex AI", embedding_model>>
    ELSE <<"Mock Embeddings">>

\* "id": f"embedding_{i}" is modelled by the index i (from 0).
_embed_placeholder(chunks) ==
    [i \in 1..Len(chunks) |->
        [id |-> i - 1, embedding |-> "placeholder", text |-> chunks[i]]]

\* The model name is read from the snapshot and the model called inside
\* one try: either failing leaves the placeholder vectors.
VertexEmbeds(e) == e.embed = "ok" /\ ~get_raises

\* _embed_with_vertex_ai numbering the embeddings from the end (enumerate
\* over the reversed response)
_embed_with_vertex_ai_reversed(chunks, e) ==
    IF VertexEmbeds(e)
    THEN [i \in 1..Len(chunks) |->
             [id |-> Len(chunks) - i, embedding |-> "vertex_ai",
              text |-> chunks[Len(chunks) + 1 - i]]]
    ELSE _embed_placeholder(chunks)

\* get_embeddings(chunks) answers with one embedding per text, in order, or
\* raises.
_embed_with_vertex_ai(chunks, e) ==
    IF VertexEmbeds(e)
    THEN [i \in 1..Len(chunks) |->
             [id |-> i - 1, embedding |-> "vertex_ai", text |-> chunks[i]]]
    ELSE _embed_placeholder(chunks)

embed_text_chunks(svc, file, index, chunks, e) ==
    IF svc.vertex_ai_configured
    THEN Outcome([NoRet EXCEPT !.embeddings = _embed_with_vertex_ai(chunks, e)],
                 svc, file, index, 0,
                 IF VertexEmbeds(e) THEN <<"vertex_ai">>
                 ELSE <<"vertex_ai", "mock_embedding">>,
                 IF VertexEmbeds(e) THEN "vertex_ai" ELSE "mock_embedding",
                 FALSE)
    ELSE Outcome([NoRet EXCEPT !.embeddings = _embed_placeholder(chunks)],
                 svc, file, index, 0, <<"mock_embedding">>, "mock_embedding",
                 FALSE)

Min(a, b) == IF a <= b THEN a ELSE b

\* zip(embeddings, metadata) stops at the shorter argument.
Zip(embeddings, metadata) ==
    [i \in 1..Min(Len(embeddings), Len(metadata)) |->
        [id |-> embeddings[i].id, embedding |-> embeddings[i].embedding,
         text |-> embeddings[i].text, metadata |-> metadata[i]]]

_store_placeholder(svc, file, index, embeddings, metadata, e, calls) ==
    LET storage_method == get_storage_method(svc)
        existing_data == IF ReadFails(file, e) THEN <<>> ELSE file.data
    IN  IF get_storage_method_raises(svc)
        THEN Outcome(NoRet, svc, file, index, 0, calls, "none", TRUE)
        ELSE IF e.file = "write_fail"
        THEN Outcome([NoRet EXCEPT !.stored_count = Len(embeddings),
                                   !.storage = "memory",
                                   !.storage_method =
                                       <<"In-Memory Storage (Temporary)">>],
                     svc, file, index, 0, Append(calls, "local_json"),
                     "none", FALSE)
        ELSE Outcome([NoRet EXCEPT !.stored_count = Len(embeddings),
                                   !.storage = "local_json",
                                   !.storage_method = storage_method],
                     svc,
                     [exists |-> TRUE,
                      data |-> existing_data \o Zip(embeddings, metadata)],
                     index, 0, Append(calls, "local_json"), "local_json",
                     FALSE)

\* The index name is read from the snapshot after upsert_datapoints has
\* returned; a failure of that read is handled like a failure of the upsert.
_store_in_vector_search(svc, file, index, embeddings, metadata, e) ==
    IF e.client = "ok" /\ get_raises
    THEN _store_placeholder(svc, file, index \o Zip(embeddings, metadata),
                            embeddings, metadata, e, <<"vector_search">>)
    ELSE IF e.client = "ok"
    THEN Outcome([NoRet EXCEPT !.stored_count = Len(embeddings),
                               !.storage = "vector_search",
                               !.storage_method =
                                   <<"Vertex AI Vector Search", index_name>>],
                 svc, file, index \o Zip(embeddings, metadata), 0,
                 <<"vector_search">>, "vector_search", FALSE)
    ELSE _store_placeholder(svc, file, index, embeddings, metadata, e,
                            <<"vector_search">>)

store_embeddings(svc, file, index, embeddings, metadata, e) ==
    IF svc.vector_search_configured
    THEN _store_in_vector_search(svc, file, index, embeddings, metadata, e)
    ELSE _store_placeholder(svc, file, index, embeddings, metadata, e, <<>>)

\* The answer text is modelled by its template and the query it embeds.
_generate_answer_from_context(query, context) ==
    IF context = <<>> THEN <<"I couldn't find relevant information for", query>>
    ELSE <<"Based on the documents", query>>

_query_placeholder(svc, file, index, user_query, user_id, calls) ==
    IF get_storage_method_raises(svc)
    THEN Outcome(NoRet, svc, file, index, 0, calls, "none", TRUE)
    ELSE
    Outcome([NoRet EXCEPT !.answer = <<"Placeholder RAG answer for", user_query>>,
                          !.method = "local_search",
                          !.storage_method = get_storage_method(svc)],
            svc, file, index, 0, Append(calls, "placeholder"), "placeholder",
            FALSE)

\* The query is embedded by _embed_with_vertex_ai whatever vertex_ai_configured
\* says; find_neighbors returns the datapoints of the index.
_query_vector_search(svc, file, index, user_query, user_id, e) ==
    LET embed_calls == IF VertexEmbeds(e) THEN <<"vertex_ai">>
                       ELSE <<"vertex_ai", "mock_embedding">>
    IN  IF e.client = "ok" /\ ~get_raises
        THEN Outcome([NoRet EXCEPT
                         !.answer = _generate_answer_from_context(user_query, index),
                         !.method = "vector_search",
                         !.storage_method =
                             <<"Vertex AI Vector Search", index_name>>,
                         !.count = Len(index)],
                     svc, file, index, 0, Append(embed_calls, "vector_search"),
                     "vector_search", FALSE)
        ELSE _query_placeholder(svc, file, index, user_query, user_id,
                                Append(embed_calls, "vector_search"))

query_rag(svc, file, index, user_query, user_id, e) ==
    IF svc.vector_search_configured
    THEN _query_vector_search(svc, file, index, user_query, user_id, e)
    ELSE _query_placeholder(svc, file, index, user_query, user_id, <<>>)

(***************************************************************************)
(* enhanced_calendar.py                                                    *)
(***************************************************************************)
initialize_calendar_service(svc, e) ==
    IF e.client = "ok" THEN [svc EXCEPT !.service = TRUE]
    ELSE [svc EXCEPT !.calendar_configured = FALSE, !.service = FALSE]

\* is_service_configured raises out of __init__ when the snapshot is not a
\* dict (obj = "failed").
EnhancedCalendar_init(e) ==
    LET svc == [obj |-> "built",
                calendar_configured |-> is_service_configured("calendar"),
                credentials_file |-> credentials_file,
                service |-> FALSE]
    IN  IF get_raises THEN [svc EXCEPT !.obj = "failed"]
        ELSE IF svc.calendar_configured /\ svc.credentials_file
             THEN initialize_calendar_service(svc, e) ELSE svc

CalendarReady(svc) == svc.calendar_configured /\ svc.service

\* _get_placeholder_events placing the third event on the day of the call
_get_placeholder_events_same_day(svc, calls) ==
    LET events == << [id |-> "event_1", start |-> 1, end |-> 2],
                     [id |-> "event_2", start |-> 24 + 10, end |-> 24 + 11],
                     [id |-> "event_3", start |-> 12, end |-> 13] >>
    IN  Outcome([NoRet EXCEPT !.status = "success", !.events = events,
                              !.count = Len(events), !.source = "placeholder"],
                svc, <<>>, <<>>, 0, Append(calls, "placeholder"),
                "placeholder", FALSE)

\* Start and end of the three placeholder events, in hours after now.
_get_placeholder_events(svc, calls) ==
    LET events == << [id |-> "event_1", start |-> 1, end |-> 2],
                     [id |-> "event_2", start |-> 24 + 10, end |-> 24 + 11],
                     [id |-> "event_3", start |-> 48 + 12, end |-> 48 + 13] >>
    IN  Outcome([NoRet EXCEPT !.status = "success", !.events = events,
                              !.count = Len(events), !.source = "placeholder"],
                svc, <<>>, <<>>, 0, Append(calls, "placeholder"),
                "placeholder", FALSE)

\* events().list(maxResults = max_results) answers with the sequence
\* api_events, which the service has already cut to max_results.
_get_real_calendar_events(svc, max_results, api_events, e) ==
    IF e.client = "ok"
    THEN Outcome([NoRet EXCEPT !.status = "success", !.events = api_events,
                              !.count = Len(api_events),
                              !.source = "google_calendar"],
                 svc, <<>>, <<>>, 0, <<"google_calendar">>, "google_calendar",
                 FALSE)
    ELSE _get_placeholder_events(svc, <<"google_calendar">>)

get_calendar_events(svc, max_results, api_events, e) ==
    IF CalendarReady(svc)
    THEN _get_real_calendar_events(svc, max_results, api_events, e)
    ELSE _get_placeholder_events(svc, <<>>)

_create_real_calendar_event(svc, e) ==
    IF e.client = "ok"
    THEN Outcome([NoRet EXCEPT !.status = "success", !.id = 1,
                              !.source = "google_calendar"],
                 svc, <<>>, <<>>, 0, <<"google_calendar">>, "google_calendar",
                 FALSE)
    ELSE Outcome([NoRet EXCEPT !.status = "error", !.message = "exception",
                              !.source = "google_calendar"],
                 svc, <<>>, <<>>, 0, <<"google_calendar">>, "none", FALSE)

_create_placeholder_event(svc) ==
    Outcome([NoRet EXCEPT !.status = "success", !.id = 1,
                          !.source = "placeholder"],
            svc, <<>>, <<>>, 0, <<"placeholder">>, "placeholder", FALSE)

create_calendar_event(svc, e) ==
    IF CalendarReady(svc) THEN _create_real_calendar_event(svc, e)
    ELSE _create_placeholder_event(svc)

(***************************************************************************)
(* State machine.  The three facades own disjoint state (their flags and   *)
(* stores) and only read the snapshot, so calls on different facades       *)
(* commute; a behaviour drives the facade of one module.                   *)
(***************************************************************************)
FacadeModules == {"enhanced_lists", "enhanced_rag", "enhanced_calendar"}
Modules == {"config_reader"} \cup FacadeModules

\* The snapshot entries a module reads; the others keep the default "off".
Reads(m) ==
    CASE m = "config_reader" -> {"firestore", "vector_search"}
      [] m = "enhanced_lists" -> {"firestore"}
      [] m = "enhanced_rag" -> {"vertex_ai", "vector_search"}
      [] m = "enhanced_calendar" -> {"calendar"}

\* An absent entry and one with "configured": false read the same through
\* is_service_configured; the modules whose behaviours tell them apart.
AbsenceModules == {"config_reader", "enhanced_calendar"}

Snapshots(m) ==
    {s \in [SnapshotKeys ->
                EntryStates \cup {"None", "credentials.json", "dict"}] :
        /\ s["type"] = "dict"
        /\ s["credentials_file"] \in {"None", "credentials.json"}
        /\ (s["credentials_file"] # "None" => m = "enhanced_calendar")
        /\ \A sv \in Services :
              /\ s[sv] \in EntryStates
              /\ sv \notin Reads(m) => s[sv] = "off"
              /\ s[sv] = "absent" => m \in AbsenceModules}

\* The states of a configuration file when a module's process loads it.
ConfigFiles(m) ==
    {ConfigFile("absent", DefaultSnapshot),
     ConfigFile("unreadable", DefaultSnapshot),
     ConfigFile("json", ListSnapshot)}
    \cup {ConfigFile("json", s) : s \in Snapshots(m)}

\* The values load_setup_status can return in a module's process.
LoadableIn ==
    [m \in Modules |->
        {load_setup_status(config_file, frontend_config_file) :
            config_file \in ConfigFiles(m),
            frontend_config_file \in ConfigFiles(m)}]

Loadable(m) == LoadableIn[m]

\* absent, unreadable, or the type of the parsed value
FileKind(file) == IF file.state = "json" THEN file.json["type"] ELSE file.state

\* the outcomes an initialize method can observe
InitEnvs == [client : ClientOutcomes, embed : {"ok"}, file : {"ok", "write_fail"}]
LocalInitEnvs == [client : {"ok"}, embed : {"ok"}, file : {"ok", "write_fail"}]
VertexInitEnvs == [client : {"ok"}, embed : ClientOutcomes, file : {"ok"}]

LEnvs == [client : ClientOutcomes, embed : {"ok"}, file : FileOutcomes]
\* the outcomes a method can observe: embed_text_chunks calls the embedding
\* model only, store_embeddings the index and the file, query_rag both clients
EmbedEnvs == [client : {"ok"}, embed : ClientOutcomes, file : {"ok"}]
StoreEnvs == [client : ClientOutcomes, embed : {"ok"}, file : FileOutcomes]
QueryEnvs == [client : ClientOutcomes, embed : ClientOutcomes, file : {"ok"}]
CEnvs == [client : ClientOutcomes, embed : {"ok"}, file : {"ok"}]

NoEnv == [client |-> "ok", embed |-> "ok", file |-> "ok"]
NoResponse == [exc |-> "none", status_code |-> 0, body |-> "none"]

NoArg ==
    [user_id |-> "", name |-> "", list_id |-> 0, items |-> <<>>,
     query |-> "", chunks |-> <<>>, n_meta |-> 0, max_results |-> 0,
     service_name |-> "", config_file |-> "", frontend_config_file |-> "",
     e |-> NoEnv, response |-> NoResponse, data |-> "", manager |-> "",
     auth |-> [outcome |-> "none", project |-> "None"], text |-> NoText]

\* again: the call repeats the previous call, in the same environment
\* earlier: the statuses the previous calls of get_backend_status returned
NoPre == [ready |-> FALSE, in_fs |-> FALSE, in_local |-> FALSE,
          again |-> FALSE, earlier |-> <<>>, cached |-> FALSE]

Call(op, arg, pre, r) ==
    [op |-> op, arg |-> arg, pre |-> pre, ret |-> r.ret, calls |-> r.calls,
     served |-> r.served, raised |-> r.raised]

NoCall ==
    [op |-> "none", arg |-> NoArg, pre |-> NoPre, ret |-> NoRet,
     calls |-> <<>>, served |-> "none", raised |-> FALSE]

\* the record of a call of an initialize method in environment e
InitCall(op, e, ready, served, raised) ==
    [op |-> op, arg |-> [NoArg EXCEPT !.e = e],
     pre |-> [NoPre EXCEPT !.ready = ready,
                           !.again = (last.op = op /\ last.arg.e = e)],
     ret |-> NoRet, calls |-> <<>>, served |-> served, raised |-> raised]

InitOf(modules) ==
    /\ module \in modules
    /\ setup_status \in Loadable(module)
    /\ lists_service =
           [obj |-> "unbuilt", firestore_configured |-> FALSE, db |-> FALSE]
    /\ local_file \in {[exists |-> FALSE, data |-> <<>>],
                       [exists |-> TRUE, data |-> <<>>]}
    /\ fs_docs = <<>>
    /\ next_id = 1
    /\ rag_system =
           [obj |-> "unbuilt", vertex_ai_configured |-> FALSE,
            vector_search_configured |-> FALSE]
    /\ emb_file = [exists |-> FALSE, data |-> <<>>]
    /\ vs_index = <<>>
    /\ calendar_service =
           [obj |-> "unbuilt", calendar_configured |-> FALSE,
            credentials_file |-> FALSE, service |-> FALSE]
    /\ backend = "up"
    /\ gcp_managers = <<>>
    /\ objects = 0
    /\ text = NoText
    /\ threads = <<>>
    /\ file_bytes = "json"
    /\ last = NoCall

\* The backend process: the ConfigReader has loaded the snapshot and the
\* module-level facade of one backend module is about to be built.
Init == InitOf(FacadeModules)

\* A process that also calls the ConfigReader and the initialize methods
\* directly.
ApiInit == InitOf(Modules)

ListsFrame ==
    UNCHANGED <<module, setup_status, rag_system, emb_file, vs_index,
                calendar_service,
                backend,
                gcp_managers,
                objects,
                text,
                threads,
                file_bytes>>
RagFrame ==
    UNCHANGED <<module, setup_status, lists_service, local_file, fs_docs,
                next_id, calendar_service,
                backend,
                gcp_managers,
                objects,
                text,
                threads,
                file_bytes>>
CalendarFrame ==
    UNCHANGED <<module, setup_status, lists_service, local_file, fs_docs,
                next_id, rag_system, emb_file, vs_index,
                backend,
                gcp_managers,
                objects,
                text,
                threads,
                file_bytes>>

(***************************************************************************)
(* config_reader: the accessors of the global ConfigReader, and           *)
(* reload_config, which any module's process may call.                     *)
(***************************************************************************)
ConfigFrame ==
    UNCHANGED <<module, lists_service, local_file, fs_docs, next_id,
                rag_system, emb_file, vs_index, calendar_service,
                backend,
                gcp_managers,
                objects,
                text,
                threads,
                file_bytes>>

LoadSetupStatus ==
    /\ module = "config_reader"
    /\ \E config_file \in ConfigFiles(module),
          frontend_config_file \in ConfigFiles(module) :
          last' = [NoCall EXCEPT
                      !.op = "load_setup_status",
                      !.arg = [NoArg EXCEPT
                          !.config_file = FileKind(config_file),
                          !.frontend_config_file =
                              FileKind(frontend_config_file)],
                      !.ret = [NoRet EXCEPT !.snapshot =
                          load_setup_status(config_file,
                                            frontend_config_file)]]
    /\ UNCHANGED setup_status
    /\ ConfigFrame

ReloadConfig ==
    /\ setup_status' \in Loadable(module)
    /\ last' = [NoCall EXCEPT !.op = "reload_config"]
    /\ ConfigFrame

IsServiceConfigured ==
    /\ module = "config_reader"
    /\ \E service_name \in Services :
          last' = [NoCall EXCEPT
                      !.op = "is_service_configured",
                      !.arg = [NoArg EXCEPT !.service_name = service_name],
                      !.ret = IF get_raises THEN NoRet
                              ELSE [NoRet EXCEPT
                                       !.type = "bool",
                                       !.configured =
                                           is_service_configured(service_name)],
                      !.raised = get_raises]
    /\ UNCHANGED setup_status
    /\ ConfigFrame

GetServiceConfig ==
    /\ module = "config_reader"
    /\ \E service_name \in Services :
          last' = [NoCall EXCEPT
                      !.op = "get_service_config",
                      !.arg = [NoArg EXCEPT !.service_name = service_name],
                      !.ret = IF get_raises THEN NoRet
                              ELSE [NoRet EXCEPT
                                       !.type = "dict",
                                       !.config =
                                           get_service_config(service_name)],
                      !.raised = get_raises]
    /\ UNCHANGED setup_status
    /\ ConfigFrame

NextConfig ==
    \/ LoadSetupStatus \/ ReloadConfig \/ IsServiceConfigured
    \/ GetServiceConfig

ListsPre(list_id) ==
    [NoPre EXCEPT
        !.ready = FirestoreReady(lists_service),
        !.in_fs = list_id \in KeysOf(fs_docs),
        !.in_local = local_file.exists /\ list_id \in KeysOf(local_file.data)]

ApplyLists(op, arg, r) ==
    /\ lists_service' = r.svc
    /\ local_file' = r.file
    /\ fs_docs' = r.docs
    /\ next_id' = r.nid
    /\ last' = Call(op, arg, ListsPre(arg.list_id), r)
    /\ ListsFrame

\* lists_service = EnhancedLists() at import of enhanced_lists
ConstructLists ==
    /\ module = "enhanced_lists"
    /\ lists_service.obj = "unbuilt"
    /\ \E e \in LEnvs :
          LET r == EnhancedLists_init(local_file, e) IN
          /\ lists_service' = r.svc
          /\ local_file' = r.file
          /\ last' = [NoCall EXCEPT !.op = "EnhancedLists",
                                    !.pre = [NoPre EXCEPT !.ready =
                                        is_service_configured("firestore")],
                                    !.calls = IF is_service_configured("firestore")
                                              THEN <<"firestore">> ELSE <<>>,
                                    !.served = IF r.svc.db THEN "firestore"
                                               ELSE "local",
                                    !.raised = r.raised]
          /\ UNCHANGED <<fs_docs, next_id>>
          /\ ListsFrame

CreateList ==
    /\ lists_service.obj = "built"
    /\ next_id <= MaxIds
    /\ \E user_id \in Users, name \in Names, e \in LEnvs :
          ApplyLists("create_list",
                     [NoArg EXCEPT !.user_id = user_id, !.name = name],
                     create_list(lists_service, local_file, fs_docs, next_id,
                                 user_id, name, e))

GetLists ==
    /\ lists_service.obj = "built"
    /\ \E user_id \in Users, e \in LEnvs :
          ApplyLists("get_lists", [NoArg EXCEPT !.user_id = user_id],
                     get_lists(lists_service, local_file, fs_docs, next_id,
                               user_id, e))

UpdateList ==
    /\ lists_service.obj = "built"
    /\ \E list_id \in Ids, items \in ItemSeqs, e \in LEnvs :
          ApplyLists("update_list",
                     [NoArg EXCEPT !.list_id = list_id, !.items = items],
                     update_list(lists_service, local_file, fs_docs, next_id,
                                 list_id, items, e))

DeleteList ==
    /\ lists_service.obj = "built"
    /\ \E list_id \in Ids, e \in LEnvs :
          ApplyLists("delete_list", [NoArg EXCEPT !.list_id = list_id],
                     delete_list(lists_service, local_file, fs_docs, next_id,
                                 list_id, e))

GetListStatus ==
    /\ lists_service.obj = "built"
    /\ last' = [NoCall EXCEPT
                   !.op = "get_list_status",
                   !.pre = ListsPre(0),
                   !.ret = [NoRet EXCEPT !.storage =
                       get_list_status(lists_service, local_file).storage_method]]
    /\ UNCHANGED <<lists_service, local_file, fs_docs, next_id>>
    /\ ListsFrame

InitializeFirestore ==
    /\ lists_service.obj = "built"
    /\ \E e \in InitEnvs :
          LET r == initialize_firestore(lists_service, local_file, e) IN
          /\ lists_service' = r.svc
          /\ local_file' = r.file
          /\ last' = InitCall("initialize_firestore", e,
                              FirestoreReady(lists_service),
                              IF r.svc.db THEN "firestore" ELSE "local",
                              r.raised)
    /\ UNCHANGED <<fs_docs, next_id>>
    /\ ListsFrame

InitializeLocalStorage ==
    /\ lists_service.obj = "built"
    /\ \E e \in LocalInitEnvs :
          LET r == initialize_local_storage(lists_service, local_file, e) IN
          /\ lists_service' = r.svc
          /\ local_file' = r.file
          /\ last' = InitCall("initialize_local_storage", e,
                              FirestoreReady(lists_service), "local", r.raised)
    /\ UNCHANGED <<fs_docs, next_id>>
    /\ ListsFrame

NextLists ==
    \/ ConstructLists \/ CreateList \/ GetLists \/ UpdateList \/ DeleteList
    \/ GetListStatus

RECURSIVE SeqsUpTo(_, _)
SeqsUpTo(S, n) ==
    IF n = 0 THEN {<<>>}
    ELSE LET shorter == SeqsUpTo(S, n - 1) IN
         shorter \cup {Append(q, x) : q \in shorter, x \in S}

Meta == [source |-> "doc.pdf", user_id |-> "u1"]

RagPre == [NoPre EXCEPT !.ready = rag_system.vector_search_configured]

ApplyRag(op, arg, pre, r) ==
    /\ rag_system' = r.svc
    /\ emb_file' = r.file
    /\ vs_index' = r.docs
    /\ last' = Call(op, arg, pre, r)
    /\ RagFrame

\* rag_system = EnhancedRAG() at import of enhanced_rag
ConstructRag ==
    /\ module = "enhanced_rag"
    /\ rag_system.obj = "unbuilt"
    /\ \E e \in QueryEnvs :
          /\ rag_system' = EnhancedRAG_init(e)
          /\ last' = [NoCall EXCEPT !.op = "EnhancedRAG",
                                    !.pre = [NoPre EXCEPT !.ready =
                                        is_service_configured("vector_search")],
                                    !.raised = get_raises]
          /\ UNCHANGED <<emb_file, vs_index>>
          /\ RagFrame

EmbedTextChunks ==
    /\ rag_system.obj = "built"
    /\ \E chunks \in SeqsUpTo(Chunks, MaxChunks), e \in EmbedEnvs :
          ApplyRag("embed_text_chunks", [NoArg EXCEPT !.chunks = chunks],
                   [NoPre EXCEPT !.ready = rag_system.vertex_ai_configured],
                   embed_text_chunks(rag_system, emb_file, vs_index, chunks, e))

StoreEmbeddings ==
    /\ rag_system.obj = "built"
    /\ \E chunks \in SeqsUpTo(StoredChunks, MaxChunks), n_meta \in 0..MaxChunks,
          e \in StoreEnvs :
          LET embeddings == _embed_placeholder(chunks)
              metadata == [i \in 1..n_meta |-> Meta]
              r == store_embeddings(rag_system, emb_file, vs_index,
                                    embeddings, metadata, e)
          IN  /\ Len(r.file.data) <= MaxStored
              /\ Len(r.docs) <= MaxStored
              /\ ApplyRag("store_embeddings",
                          [NoArg EXCEPT !.chunks = chunks, !.n_meta = n_meta],
                          RagPre, r)

QueryRag ==
    /\ rag_system.obj = "built"
    /\ \E user_query \in Queries, user_id \in Users, e \in QueryEnvs :
          ApplyRag("query_rag",
                   [NoArg EXCEPT !.query = user_query, !.user_id = user_id],
                   RagPre,
                   query_rag(rag_system, emb_file, vs_index, user_query,
                             user_id, e))

InitializeVertexAi ==
    /\ rag_system.obj = "built"
    /\ \E e \in VertexInitEnvs :
          /\ rag_system' = initialize_vertex_ai(rag_system, e)
          /\ last' = InitCall("initialize_vertex_ai", e,
                              rag_system.vertex_ai_configured, "none", FALSE)
    /\ UNCHANGED <<emb_file, vs_index>>
    /\ RagFrame

InitializeVectorSearch ==
    /\ rag_system.obj = "built"
    /\ \E e \in CEnvs :
          /\ rag_system' = initialize_vector_search(rag_system, e)
          /\ last' = InitCall("initialize_vector_search", e,
                              rag_system.vector_search_configured, "none",
                              FALSE)
    /\ UNCHANGED <<emb_file, vs_index>>
    /\ RagFrame

GetStorageMethod ==
    /\ rag_system.obj = "built"
    /\ last' = [NoCall EXCEPT
                   !.op = "get_storage_method",
                   !.pre = RagPre,
                   !.ret = IF get_storage_method_raises(rag_system) THEN NoRet
                           ELSE [NoRet EXCEPT
                                    !.type = "str",
                                    !.storage_method =
                                        get_storage_method(rag_system)],
                   !.raised = get_storage_method_raises(rag_system)]
    /\ UNCHANGED <<rag_system, emb_file, vs_index>>
    /\ RagFrame

GetEmbeddingMethod ==
    /\ rag_system.obj = "built"
    /\ last' = [NoCall EXCEPT
                   !.op = "get_embedding_method",
                   !.pre = RagPre,
                   !.ret = IF get_embedding_method_raises(rag_system) THEN NoRet
                           ELSE [NoRet EXCEPT
                                    !.type = "str",
                                    !.embedding_method =
                                        get_embedding_method(rag_system)],
                   !.raised = get_embedding_method_raises(rag_system)]
    /\ UNCHANGED <<rag_system, emb_file, vs_index>>
    /\ RagFrame

NextRag ==
    \/ ConstructRag \/ EmbedTextChunks \/ StoreEmbeddings \/ QueryRag
    \/ GetStorageMethod \/ GetEmbeddingMethod

\* What events().list can answer: the first k upcoming events of the primary
\* calendar, ordered by start time, k <= max_results.
ApiEvents(k) == [i \in 1..k |-> [id |-> "api_event", start |-> i, end |-> i + 1]]

CalendarPre == [NoPre EXCEPT !.ready = CalendarReady(calendar_service)]

ApplyCalendar(op, arg, r) ==
    /\ calendar_service' = r.svc
    /\ last' = Call(op, arg, CalendarPre, r)
    /\ CalendarFrame

\* calendar_service = EnhancedCalendar() at import of enhanced_calendar
ConstructCalendar ==
    /\ module = "enhanced_calendar"
    /\ calendar_service.obj = "unbuilt"
    /\ \E e \in CEnvs :
          /\ calendar_service' = EnhancedCalendar_init(e)
          /\ last' = [NoCall EXCEPT !.op = "EnhancedCalendar",
                                    !.pre = [NoPre EXCEPT !.ready =
                                        /\ is_service_configured("calendar")
                                        /\ credentials_file],
                                    !.raised = get_raises]
          /\ CalendarFrame

GetCalendarEvents ==
    /\ calendar_service.obj = "built"
    /\ \E max_results \in 0..MaxResults, e \in CEnvs :
          \E k \in 0..max_results :
             ApplyCalendar("get_calendar_events",
                           [NoArg EXCEPT !.max_results = max_results],
                           get_calendar_events(calendar_service, max_results,
                                               ApiEvents(k), e))

CreateCalendarEvent ==
    /\ calendar_service.obj = "built"
    /\ \E e \in CEnvs :
          ApplyCalendar("create_calendar_event", NoArg,
                        create_calendar_event(calendar_service, e))

InitializeCalendarService ==
    /\ calendar_service.obj = "built"
    /\ \E e \in CEnvs :
          /\ calendar_service' =
                 initialize_calendar_service(calendar_service, e)
          /\ last' = InitCall("initialize_calendar_service", e,
                              CalendarReady(calendar_service), "none", FALSE)
    /\ CalendarFrame

NextCalendar ==
    \/ ConstructCalendar \/ GetCalendarEvents \/ CreateCalendarEvent

\* The operations the routes of the backend call on the module-level facades.
Next == NextLists \/ NextRag \/ NextCalendar

Spec == Init /\ [][Next]_vars

\* The methods no route calls (reload_config, the accessors of ConfigReader,
\* the initialize methods), interleaved with construction and with
\* operations of each facade.
NextInitialize ==
    \/ InitializeFirestore \/ InitializeLocalStorage \/ InitializeVertexAi
    \/ InitializeVectorSearch \/ InitializeCalendarService

ApiNext ==
    \/ NextConfig \/ NextInitialize
    \/ ConstructLists \/ CreateList \/ GetListStatus
    \/ ConstructRag \/ EmbedTextChunks \/ QueryRag \/ GetStorageMethod
    \/ GetEmbeddingMethod
    \/ ConstructCalendar \/ GetCalendarEvents \/ CreateCalendarEvent

ApiSpec == ApiInit /\ [][ApiNext]_vars

(***************************************************************************)
(* streamlit/utils.py: the client functions of the Streamlit process.     *)
(* Each function sends one HTTP request; the outcome of the request is an  *)
(* input of the call.                                                      *)
(***************************************************************************)
\* requests.<verb>(...) raises ConnectionError (connection refused),
\* ConnectTimeout (no connection within the timeout) or Timeout (connected,
\* no answer within the timeout), or returns a response with a status code
\* and a body: text that is not JSON, or JSON for a list, for a dict with
\* the key "lists", or for another dict.
StatusCodes == {200, 201, 404, 500}
Bodies == {"malformed", "list", "dict_lists", "dict"}
Responses ==
    {[exc |-> x, status_code |-> 0, body |-> "none"] :
        x \in {"ConnectionError", "ConnectTimeout", "Timeout"}}
    \cup [exc : {"none"}, status_code : StatusCodes, body : Bodies]

\* The outcomes of a request while the backend can be reached (it answers,
\* or accepts the connection and answers too late) and while it cannot.
ResponsesWhen(b) ==
    IF b = "up" THEN {resp \in Responses : resp.exc \in {"none", "Timeout"}}
    ELSE {resp \in Responses :
             resp.exc \in {"ConnectionError", "ConnectTimeout"}}

\* resp.json() of a malformed body raises requests' JSONDecodeError (a
\* RequestException and a json.JSONDecodeError) or, with an older requests,
\* the json module's own.
JsonErrors == {"requests.JSONDecodeError", "json.JSONDecodeError"}

\* isinstance(exception, class) for the classes the except clauses name
IsInstance(exc, class) ==
    \/ exc = class
    \/ class = "Exception"
    \/ /\ class = "RequestException"
       /\ exc \in {"ConnectionError", "ConnectTimeout", "Timeout",
                    "HTTPError", "requests.JSONDecodeError"}
    \/ /\ class \in {"ConnectionError", "Timeout"}
       /\ exc = "ConnectTimeout"
    \/ /\ class = "json.JSONDecodeError"
       /\ exc = "requests.JSONDecodeError"

\* The outcome of a function body: the exception that left it ("none" when
\* it returned) and the returned value, by its type, its length when it is
\* a list, its keys when it is a dict, and the text of its "error" entry.
Returns(type, len, keys, error) ==
    [exc |-> "none", type |-> type, len |-> len, keys |-> keys,
     error |-> error]
Raises(exc) ==
    [exc |-> exc, type |-> "none", len |-> 0, keys |-> {}, error |-> "none"]

\* What resp.json() returns for a body that parses: a list of one entry, a
\* dict whose "lists" entry is a list of one entry, or a dict of the
\* backend's own keys.
Parsed(body) ==
    CASE body = "list" -> Returns("list", 1, {}, "none")
      [] body = "dict_lists" -> Returns("dict", 0, {"lists"}, "none")
      [] OTHER -> Returns("dict", 0, {"backend"}, "none")

\* resp = requests.<verb>(...); resp.raise_for_status(); return resp.json()
request_json(resp, json_error) ==
    IF resp.exc # "none" THEN Raises(resp.exc)
    ELSE IF resp.status_code >= 400 THEN Raises("HTTPError")
    ELSE IF resp.body = "malformed" THEN Raises(json_error)
    ELSE Parsed(resp.body)

\* safe_request without the clauses that catch an HTTPError
safe_request_reraising(r) ==
    IF r.exc \in {"none", "HTTPError"} THEN r
    ELSE Returns("dict", 0, {"error"}, "Unexpected error")

\* the except clauses of the wrapper, in order
safe_request(r) ==
    IF r.exc = "none" THEN r
    ELSE IF IsInstance(r.exc, "ConnectionError")
         THEN Returns("dict", 0, {"error"}, "Backend connection failed")
    ELSE IF IsInstance(r.exc, "Timeout")
         THEN Returns("dict", 0, {"error"}, "Request timed out")
    ELSE IF IsInstance(r.exc, "RequestException")
         THEN Returns("dict", 0, {"error"}, "Network error")
    ELSE IF IsInstance(r.exc, "json.JSONDecodeError")
         THEN Returns("dict", 0, {"error"}, "Invalid response from backend")
    ELSE Returns("dict", 0, {"error"}, "Unexpected error")

\* get_lists: the inner try returns [] on any exception; a list is returned
\* item by item, a dict's "lists" entry as it is, anything else as [].
utils_get_lists(resp, json_error) ==
    LET r == request_json(resp, json_error) IN
    safe_request(IF r.exc # "none" THEN Returns("list", 0, {}, "none")
                 ELSE IF r.type = "list" THEN r
                 ELSE IF "lists" \in r.keys
                      THEN Returns("list", 1, {}, "none")
                      ELSE Returns("list", 0, {}, "none"))

\* create_list, update_list, delete_list, get_calendar_events, health_check
utils_safe_call(resp, json_error) == safe_request(request_json(resp, json_error))

\* The first try of chat, get_memory and evaluate: the backend's payload when
\* it answers 200 with a body that parses; the bare except swallows every
\* exception.  answered = FALSE when control reaches the placeholder.
backend_answer(resp) ==
    IF resp.exc = "none" /\ resp.status_code = 200 /\ resp.body # "malformed"
    THEN [answered |-> TRUE, value |-> Parsed(resp.body)]
    ELSE [answered |-> FALSE, value |-> Raises("none")]

\* chat returning the backend's payload for every 2xx status
utils_chat_any_success(resp) ==
    IF resp.exc = "none" /\ resp.status_code < 300 /\ resp.body # "malformed"
    THEN Parsed(resp.body)
    ELSE Returns("dict", 0, {"response", "context", "timestamp"}, "none")

utils_chat(resp) ==
    IF backend_answer(resp).answered THEN backend_answer(resp).value
    ELSE Returns("dict", 0, {"response", "context", "timestamp"}, "none")

utils_get_memory(resp) ==
    IF backend_answer(resp).answered THEN backend_answer(resp).value
    ELSE Returns("dict", 0, {"memory"}, "none")

\* The argument of evaluate: a dict whose "data" is a list, a dict without
\* "data", or a value that is not a dict (no .get).
EvaluateData == {"dict_with_data", "dict", "list"}

\* len(data.get("data", [])) raises AttributeError inside the second try
\* when data is not a dict.
utils_evaluate(resp, data) ==
    IF backend_answer(resp).answered THEN backend_answer(resp).value
    ELSE IF data = "list"
         THEN Returns("dict", 0, {"error"}, "AttributeError")
    ELSE Returns("dict", 0, {"metrics", "details", "status"}, "none")

\* the text the status classification looks for, in the lowered message
ConnectionFailedIn(error) == error = "Backend connection failed"

BackendStatus(status, keys, error) ==
    [exc |-> "none", status |-> status, keys |-> keys, error |-> error]

\* get_backend_status reporting every failed health check as "error"
get_backend_status_unclassified(health) ==
    IF health.exc = "none" /\ (health.type = "list" \/ "error" \notin health.keys)
    THEN BackendStatus("healthy", {"status", "backend_url", "details"}, "none")
    ELSE BackendStatus("error", {"status", "backend_url", "error"},
                       health.error)

\* get_backend_status, given what health_check() returned or raised
get_backend_status(health) ==
    IF health.exc # "none"
    THEN BackendStatus("unreachable", {"status", "backend_url", "error"},
                       health.exc)
    ELSE IF health.type = "list" \/ "error" \notin health.keys
    THEN BackendStatus("healthy", {"status", "backend_url", "details"}, "none")
    ELSE IF ConnectionFailedIn(health.error)
    THEN BackendStatus("unreachable", {"status", "backend_url", "error"},
                       health.error)
    ELSE BackendStatus("error", {"status", "backend_url", "error"},
                       health.error)

ClientInit ==
    /\ module = "utils"
    /\ setup_status = DefaultSnapshot
    /\ lists_service =
           [obj |-> "unbuilt", firestore_configured |-> FALSE, db |-> FALSE]
    /\ local_file = [exists |-> FALSE, data |-> <<>>]
    /\ fs_docs = <<>>
    /\ next_id = 1
    /\ rag_system =
           [obj |-> "unbuilt", vertex_ai_configured |-> FALSE,
            vector_search_configured |-> FALSE]
    /\ emb_file = [exists |-> FALSE, data |-> <<>>]
    /\ vs_index = <<>>
    /\ calendar_service =
           [obj |-> "unbuilt", calendar_configured |-> FALSE,
            credentials_file |-> FALSE, service |-> FALSE]
    /\ backend \in {"up", "down"}
    /\ gcp_managers = <<>>
    /\ objects = 0
    /\ text = NoText
    /\ threads = <<>>
    /\ file_bytes = "json"
    /\ last = NoCall

\* The record of a client call: the response it got and what it returned.
ClientCall(op, arg, resp, r) ==
    [op |-> op,
     arg |-> [arg EXCEPT !.response = resp],
     pre |-> [NoPre EXCEPT !.ready =
                 (resp.exc = "none" /\ resp.status_code = 200)],
     ret |-> [NoRet EXCEPT !.type = r.type, !.count = r.len,
                           !.keys = r.keys, !.message = r.error],
     calls |-> <<>>, served |-> "none", raised |-> r.exc # "none"]

ClientFrame ==
    UNCHANGED <<module, setup_status, lists_service, local_file, fs_docs,
                next_id, rag_system, emb_file, vs_index, calendar_service,
                backend,
                gcp_managers,
                objects,
                text,
                threads,
                file_bytes>>

ClientGetLists ==
    /\ module = "utils"
    /\ \E user_id \in Users, resp \in ResponsesWhen(backend), json_error \in JsonErrors :
          last' = ClientCall("utils.get_lists",
                             [NoArg EXCEPT !.user_id = user_id], resp,
                             utils_get_lists(resp, json_error))
    /\ ClientFrame

ClientCreateList ==
    /\ module = "utils"
    /\ \E user_id \in Users, name \in Names, resp \in ResponsesWhen(backend),
          json_error \in JsonErrors :
          last' = ClientCall("utils.create_list",
                             [NoArg EXCEPT !.user_id = user_id, !.name = name],
                             resp, utils_safe_call(resp, json_error))
    /\ ClientFrame

ClientUpdateList ==
    /\ module = "utils"
    /\ \E list_id \in Ids, items \in ItemSeqs, resp \in ResponsesWhen(backend),
          json_error \in JsonErrors :
          last' = ClientCall("utils.update_list",
                             [NoArg EXCEPT !.list_id = list_id,
                                           !.items = items],
                             resp, utils_safe_call(resp, json_error))
    /\ ClientFrame

ClientDeleteList ==
    /\ module = "utils"
    /\ \E list_id \in Ids, resp \in ResponsesWhen(backend), json_error \in JsonErrors :
          last' = ClientCall("utils.delete_list",
                             [NoArg EXCEPT !.list_id = list_id], resp,
                             utils_safe_call(resp, json_error))
    /\ ClientFrame

ClientGetCalendarEvents ==
    /\ module = "utils"
    /\ \E user_id \in Users, resp \in ResponsesWhen(backend), json_error \in JsonErrors :
          last' = ClientCall("utils.get_calendar_events",
                             [NoArg EXCEPT !.user_id = user_id], resp,
                             utils_safe_call(resp, json_error))
    /\ ClientFrame

ClientHealthCheck ==
    /\ module = "utils"
    /\ \E resp \in ResponsesWhen(backend), json_error \in JsonErrors :
          last' = ClientCall("utils.health_check", NoArg, resp,
                             utils_safe_call(resp, json_error))
    /\ ClientFrame

ClientChat ==
    /\ module = "utils"
    /\ \E message \in Queries, user_id \in Users, resp \in ResponsesWhen(backend) :
          last' = ClientCall("utils.chat",
                             [NoArg EXCEPT !.query = message,
                                           !.user_id = user_id],
                             resp, utils_chat(resp))
    /\ ClientFrame

ClientGetMemory ==
    /\ module = "utils"
    /\ \E resp \in ResponsesWhen(backend) :
          last' = ClientCall("utils.get_memory", NoArg, resp,
                             utils_get_memory(resp))
    /\ ClientFrame

ClientEvaluate ==
    /\ module = "utils"
    /\ \E data \in EvaluateData, resp \in ResponsesWhen(backend) :
          last' = ClientCall("utils.evaluate", [NoArg EXCEPT !.data = data],
                             resp, utils_evaluate(resp, data))
    /\ ClientFrame

\* the last two statuses get_backend_status returned, this call's included
Statuses(c) ==
    LET all == Append(c.pre.earlier, c.ret.status) IN
    IF Len(all) > MaxStatuses THEN Tail(all) ELSE all

ClientGetBackendStatus ==
    /\ module = "utils"
    /\ \E resp \in ResponsesWhen(backend), json_error \in JsonErrors :
          LET r == get_backend_status(utils_safe_call(resp, json_error)) IN
          last' = [ClientCall("utils.get_backend_status", NoArg, resp,
                              Raises(r.exc))
                     EXCEPT !.pre.earlier =
                                IF last.op = "utils.get_backend_status"
                                THEN Statuses(last) ELSE <<>>,
                            !.ret.status = r.status,
                            !.ret.type = "dict",
                            !.ret.keys = r.keys,
                            !.ret.message = r.error]
    /\ ClientFrame

\* the backend process is started, and terminated
BackendStarts ==
    /\ module = "utils"
    /\ backend = "down"
    /\ backend' = "up"
    /\ UNCHANGED <<module, setup_status, lists_service, local_file, fs_docs,
                   next_id, rag_system, emb_file, vs_index, calendar_service,
                   gcp_managers, objects, text, threads, file_bytes, last>>

BackendStops ==
    /\ module = "utils"
    /\ backend = "up"
    /\ backend' = "down"
    /\ UNCHANGED <<module, setup_status, lists_service, local_file, fs_docs,
                   next_id, rag_system, emb_file, vs_index, calendar_service,
                   gcp_managers, objects, text, threads, file_bytes, last>>

ClientNext ==
    \/ ClientGetLists \/ ClientCreateList \/ ClientUpdateList
    \/ ClientDeleteList \/ ClientGetCalendarEvents \/ ClientHealthCheck
    \/ ClientChat \/ ClientGetMemory \/ ClientEvaluate
    \/ ClientGetBackendStatus \/ BackendStarts \/ BackendStops

ClientSpec == ClientInit /\ [][ClientNext]_vars

(***************************************************************************)
(* src/cli/utils/gcp.py: GCPManager.  An object is identified by its       *)
(* number in the order of creation; 0 is None.                             *)
(***************************************************************************)
\* the module-level _default_manager = GCPManager() and a manager built by
\* a caller, with or without a project_id
Managers == {"_default_manager", "manager"}
ProjectIds == {"None", "configured"}

\* google.auth.default() raises DefaultCredentialsError, or returns new
\* credentials and the project it detected (None when it detects none)
AuthOutcomes ==
    [outcome : {"ok", "raise"}, project : {"None", "detected", "other"}]

GCPManager_init(project_id) ==
    [project_id |-> project_id, _credentials |-> 0, _client_info |-> 0]

\* The outcome of a method of a manager: the manager after the call, the
\* returned value, the external calls made and the objects created so far.
GcpOutcome(mgr, ret, calls, n, raised) ==
    [mgr |-> mgr, ret |-> ret, calls |-> calls, objects |-> n,
     raised |-> raised]

\* get_credentials without the cache test
get_credentials_uncached(mgr, auth, n) ==
    IF auth.outcome = "raise"
    THEN GcpOutcome(mgr, NoRet, <<"google.auth.default">>, n, TRUE)
    ELSE LET project_id == IF mgr.project_id = "None" THEN auth.project
                           ELSE mgr.project_id
         IN GcpOutcome([mgr EXCEPT !._credentials = n + 1,
                                   !.project_id = project_id],
                       [NoRet EXCEPT !.credentials = n + 1,
                                     !.project = project_id],
                       <<"google.auth.default">>, n + 1, FALSE)

get_credentials(mgr, auth, n) ==
    IF mgr._credentials = 0
    THEN IF auth.outcome = "raise"
         THEN GcpOutcome(mgr, NoRet, <<"google.auth.default">>, n, TRUE)
         ELSE LET project_id == IF mgr.project_id = "None" THEN auth.project
                                ELSE mgr.project_id
              IN GcpOutcome([mgr EXCEPT !._credentials = n + 1,
                                        !.project_id = project_id],
                            [NoRet EXCEPT !.credentials = n + 1,
                                          !.project = project_id],
                            <<"google.auth.default">>, n + 1, FALSE)
    ELSE GcpOutcome(mgr, [NoRet EXCEPT !.credentials = mgr._credentials,
                                       !.project = mgr.project_id],
                    <<>>, n, FALSE)

\* get_client_info; version = "raise" when get_current_version() raises
\* inside get_user_agent
get_client_info(mgr, version, n) ==
    IF mgr._client_info = 0
    THEN IF version = "raise"
         THEN GcpOutcome(mgr, NoRet, <<"get_user_agent">>, n, TRUE)
         ELSE GcpOutcome([mgr EXCEPT !._client_info = n + 1],
                         [NoRet EXCEPT !.client_info = n + 1],
                         <<"get_user_agent", "ClientInfo">>, n + 1, FALSE)
    ELSE GcpOutcome(mgr, [NoRet EXCEPT !.client_info = mgr._client_info],
                    <<>>, n, FALSE)

GcpInit ==
    /\ module = "gcp"
    /\ setup_status = DefaultSnapshot
    /\ lists_service =
           [obj |-> "unbuilt", firestore_configured |-> FALSE, db |-> FALSE]
    /\ local_file = [exists |-> FALSE, data |-> <<>>]
    /\ fs_docs = <<>>
    /\ next_id = 1
    /\ rag_system =
           [obj |-> "unbuilt", vertex_ai_configured |-> FALSE,
            vector_search_configured |-> FALSE]
    /\ emb_file = [exists |-> FALSE, data |-> <<>>]
    /\ vs_index = <<>>
    /\ calendar_service =
           [obj |-> "unbuilt", calendar_configured |-> FALSE,
            credentials_file |-> FALSE, service |-> FALSE]
    /\ backend = "up"
    /\ \E project_id \in ProjectIds :
          gcp_managers =
              [m \in Managers |->
                  GCPManager_init(IF m = "manager" THEN project_id
                                  ELSE "None")]
    /\ objects = 0
    /\ text = NoText
    /\ threads = <<>>
    /\ file_bytes = "json"
    /\ last = NoCall

GcpFrame ==
    UNCHANGED <<module, setup_status, lists_service, local_file, fs_docs,
                next_id, rag_system, emb_file, vs_index, calendar_service,
                backend, text, threads, file_bytes>>

GcpCall(op, m, auth, r) ==
    [op |-> op,
     arg |-> [NoArg EXCEPT !.manager = m, !.auth = auth],
     pre |-> [NoPre EXCEPT !.cached =
                 IF op = "get_credentials"
                 THEN gcp_managers[m]._credentials # 0
                 ELSE gcp_managers[m]._client_info # 0],
     ret |-> r.ret, calls |-> r.calls, served |-> "none",
     raised |-> r.raised]

GetCredentials ==
    /\ module = "gcp"
    /\ \E m \in Managers, auth \in AuthOutcomes :
          LET r == get_credentials(gcp_managers[m], auth, objects) IN
          /\ r.objects <= MaxObjects
          /\ gcp_managers' = [gcp_managers EXCEPT ![m] = r.mgr]
          /\ objects' = r.objects
          /\ last' = GcpCall("get_credentials", m, auth, r)
    /\ GcpFrame

GetClientInfo ==
    /\ module = "gcp"
    /\ \E m \in Managers, version \in {"ok", "raise"} :
          LET r == get_client_info(gcp_managers[m], version, objects) IN
          /\ r.objects <= MaxObjects
          /\ gcp_managers' = [gcp_managers EXCEPT ![m] = r.mgr]
          /\ objects' = r.objects
          /\ last' = GcpCall("get_client_info", m,
                             [outcome |-> version, project |-> "None"], r)
    /\ GcpFrame

GcpNext == GetCredentials \/ GetClientInfo

GcpSpec == GcpInit /\ [][GcpNext]_vars

(***************************************************************************)
(* src/frontends/streamlit/frontend/utils/chat_utils.py:                   *)
(* ChatProcessor.clean_text                                                *)
(***************************************************************************)
Chars == {"\n", "a", " "}

RECURSIVE StrsOfLen(_)
StrsOfLen(n) ==
    IF n = 0 THEN {<<>>}
    ELSE {Append(s, c) : s \in StrsOfLen(n - 1), c \in Chars}

\* the arguments of clean_text: None and every str of at most MaxLen
\* characters
Texts == {NoText} \cup {Str(s) : s \in UNION {StrsOfLen(n) : n \in 0..MaxLen}}

startswith(s, c) == Len(s) > 0 /\ s[1] = c
endswith(s, c) == Len(s) > 0 /\ s[Len(s)] = c

\* "if not text: return text", then one test of the head and one of the tail
clean_text(t) ==
    IF t.is_none \/ t.s = <<>> THEN t
    ELSE LET text1 == IF startswith(t.s, "\n") THEN Tail(t.s) ELSE t.s
             text2 == IF endswith(text1, "\n")
                      THEN SubSeq(text1, 1, Len(text1) - 1) ELSE text1
         IN Str(text2)

TextInit ==
    /\ module = "chat_utils"
    /\ setup_status = DefaultSnapshot
    /\ lists_service =
           [obj |-> "unbuilt", firestore_configured |-> FALSE, db |-> FALSE]
    /\ local_file = [exists |-> FALSE, data |-> <<>>]
    /\ fs_docs = <<>>
    /\ next_id = 1
    /\ rag_system =
           [obj |-> "unbuilt", vertex_ai_configured |-> FALSE,
            vector_search_configured |-> FALSE]
    /\ emb_file = [exists |-> FALSE, data |-> <<>>]
    /\ vs_index = <<>>
    /\ calendar_service =
           [obj |-> "unbuilt", calendar_configured |-> FALSE,
            credentials_file |-> FALSE, service |-> FALSE]
    /\ backend = "up"
    /\ gcp_managers = <<>>
    /\ objects = 0
    /\ text \in Texts
    /\ threads = <<>>
    /\ file_bytes = "json"
    /\ last = NoCall

\* text = processor.clean_text(text)
CleanText ==
    /\ module = "chat_utils"
    /\ text' = clean_text(text)
    /\ last' = [NoCall EXCEPT !.op = "clean_text", !.arg.text = text,
                              !.ret.text = clean_text(text)]
    /\ UNCHANGED <<module, setup_status, lists_service, local_file, fs_docs,
                   next_id, rag_system, emb_file, vs_index, calendar_service,
                   backend, gcp_managers, objects, threads, file_bytes>>

TextNext == CleanText

TextSpec == TextInit /\ [][TextNext]_vars

(***************************************************************************)
(* routes_lists.py over the local tier, thread by thread.  The handlers    *)
(* are plain functions, which the server runs in worker threads; each      *)
(* calls one facade method, and the local method runs in the steps of its  *)
(* code: read the file, change the loaded dict, open the file for writing  *)
(* (which empties it), dump the dict.  No step takes a lock.               *)
(***************************************************************************)
Threads == {"t1", "t2"}

MutatingCalls == {"create_list", "update_list", "delete_list"}

Idle ==
    [pc |-> "idle", op |-> "none", user_id |-> "", name |-> "", list_id |-> 0,
     items |-> <<>>, data |-> <<>>, status |-> "none"]

\* The length of the JSON text of a dict: every entry and every item of the
\* input domains takes the same number of bytes.
RECURSIVE Size(_)
Size(data) ==
    IF data = <<>> THEN 0
    ELSE 1 + Len(data[1].items) + Size(Tail(data))

\* the stores the threads may find: empty, or holding one list
ThreadInitStores == {<<>>, <<NewList(1, "u1", "Groceries")>>}

ThreadInit ==
    /\ module = "routes_lists"
    /\ setup_status = DefaultSnapshot
    /\ lists_service =
           [obj |-> "built", firestore_configured |-> FALSE, db |-> FALSE]
    /\ \E data \in ThreadInitStores :
          /\ local_file = [exists |-> TRUE, data |-> data]
          /\ next_id = Len(data) + 1
    /\ fs_docs = <<>>
    /\ rag_system =
           [obj |-> "unbuilt", vertex_ai_configured |-> FALSE,
            vector_search_configured |-> FALSE]
    /\ emb_file = [exists |-> FALSE, data |-> <<>>]
    /\ vs_index = <<>>
    /\ calendar_service =
           [obj |-> "unbuilt", calendar_configured |-> FALSE,
            credentials_file |-> FALSE, service |-> FALSE]
    /\ backend = "up"
    /\ gcp_managers = <<>>
    /\ objects = 0
    /\ text = NoText
    /\ threads = [t \in Threads |-> Idle]
    /\ file_bytes = "json"
    /\ last = NoCall

ThreadFrame ==
    UNCHANGED <<module, setup_status, lists_service, fs_docs, rag_system,
                emb_file, vs_index, calendar_service, backend, gcp_managers,
                objects, text, last>>

\* api_create_list / api_update_list / api_delete_list call the facade
\* method, which finds Firestore not ready and calls the local method.
HandlerCalls(t) ==
    /\ threads[t].pc = "idle"
    /\ ~FirestoreReady(lists_service)
    /\ \E op \in MutatingCalls, user_id \in Users, name \in Names,
          list_id \in Ids, items \in ItemSeqs :
          threads' = [threads EXCEPT ![t] =
              CASE op = "create_list" ->
                       [Idle EXCEPT !.pc = "called", !.op = op,
                                    !.user_id = user_id, !.name = name]
                [] op = "update_list" ->
                       [Idle EXCEPT !.pc = "called", !.op = op,
                                    !.list_id = list_id, !.items = items]
                [] OTHER ->
                       [Idle EXCEPT !.pc = "called", !.op = op,
                                    !.list_id = list_id]]
    /\ UNCHANGED <<local_file, next_id, file_bytes>>
    /\ ThreadFrame

\* with open(file, 'r'): data = json.load(f), and the change of the loaded
\* dict.  json.load raises on an empty or garbled file: _create_local_list
\* then returns a new uuid, the other two an error status.
Loads(t) ==
    LET th == threads[t] IN
    /\ th.pc = "called"
    /\ IF ~local_file.exists \/ file_bytes # "json"
       THEN /\ threads' = [threads EXCEPT ![t] =
                   IF th.op = "create_list"
                   THEN [th EXCEPT !.pc = "returned", !.list_id = next_id,
                                   !.status = "exception"]
                   ELSE [th EXCEPT !.pc = "returned", !.status = "exception"]]
            /\ next_id' = IF th.op = "create_list" THEN next_id + 1
                          ELSE next_id
       ELSE CASE th.op = "create_list" ->
                  /\ threads' = [threads EXCEPT ![t] =
                         [th EXCEPT !.pc = "loaded", !.list_id = next_id,
                                    !.data = Append(local_file.data,
                                               NewList(next_id, th.user_id,
                                                       th.name))]]
                  /\ next_id' = next_id + 1
              [] th.list_id \notin KeysOf(local_file.data) ->
                  /\ threads' = [threads EXCEPT ![t] =
                         [th EXCEPT !.pc = "returned",
                                    !.status = "List not found"]]
                  /\ UNCHANGED next_id
              [] th.op = "update_list" ->
                  /\ threads' = [threads EXCEPT ![t] =
                         [th EXCEPT !.pc = "loaded",
                                    !.data = SetItems(local_file.data,
                                                      th.list_id, th.items)]]
                  /\ UNCHANGED next_id
              [] OTHER ->
                  /\ threads' = [threads EXCEPT ![t] =
                         [th EXCEPT !.pc = "loaded",
                                    !.data = RemoveKey(local_file.data,
                                                       th.list_id)]]
                  /\ UNCHANGED next_id
    /\ UNCHANGED <<local_file, file_bytes>>
    /\ ThreadFrame

\* with open(file, 'w'): the file is emptied when it is opened
OpensForWriting(t) ==
    /\ threads[t].pc = "loaded"
    /\ threads' = [threads EXCEPT ![t].pc = "writing"]
    /\ local_file' = [local_file EXCEPT !.data = <<>>]
    /\ file_bytes' = "empty"
    /\ UNCHANGED next_id
    /\ ThreadFrame

\* json.dump(data, f) and the close of the file: the text is written from
\* offset 0 of this handle, over what another handle wrote since this one
\* was opened; a longer text written by the other leaves its tail behind.
Dumps(t) ==
    LET th == threads[t] IN
    /\ th.pc = "writing"
    /\ IF file_bytes = "empty" \/ Size(local_file.data) <= Size(th.data)
       THEN /\ local_file' = [local_file EXCEPT !.data = th.data]
            /\ file_bytes' = "json"
       ELSE /\ local_file' = [local_file EXCEPT !.data = <<>>]
            /\ file_bytes' = "garbled"
    /\ threads' = [threads EXCEPT ![t] =
           [th EXCEPT !.pc = "returned",
                      !.status = IF th.op = "create_list" THEN "created"
                                 ELSE "success"]]
    /\ UNCHANGED next_id
    /\ ThreadFrame

ThreadNext ==
    \E t \in Threads :
        HandlerCalls(t) \/ Loads(t) \/ OpensForWriting(t) \/ Dumps(t)

ThreadSpec == ThreadInit /\ [][ThreadNext]_vars

(***************************************************************************)
(* Vocabulary of the properties                                            *)
(***************************************************************************)
ListCalls == {"create_list", "get_lists", "update_list", "delete_list"}
RagCalls == {"embed_text_chunks", "store_embeddings", "query_rag"}
CalendarCalls == {"get_calendar_events", "create_calendar_event"}
FacadeCalls == ListCalls \cup RagCalls \cup CalendarCalls
ConfigCalls ==
    {"load_setup_status", "reload_config", "is_service_configured",
     "get_service_config"}

PrimaryTier(op) ==
    CASE op \in ListCalls -> "firestore"
      [] op = "embed_text_chunks" -> "vertex_ai"
      [] op \in {"store_embeddings", "query_rag"} -> "vector_search"
      [] op \in CalendarCalls -> "google_calendar"
      [] OTHER -> "none"

FallbackTier(op) ==
    CASE op \in ListCalls -> "local"
      [] op = "embed_text_chunks" -> "mock_embedding"
      [] op = "store_embeddings" -> "local_json"
      [] op = "query_rag" -> "placeholder"
      [] op \in CalendarCalls -> "placeholder"
      [] OTHER -> "none"

Invoked(c, tier) == \E i \in 1..Len(c.calls) : c.calls[i] = tier

\* The primary tier was ready, was invoked and raised on the call c.
PrimaryRaised(c) ==
    /\ c.op \in FacadeCalls
    /\ c.pre.ready
    /\ Invoked(c, PrimaryTier(c.op))
    /\ c.served # PrimaryTier(c.op)

\* A failure result: an error status, or an exception.
IsFailure(c) == c.raised \/ c.ret.status = "error"

\* The call c tried its primary tier before its fallback tier.
PrimaryFirst(c) ==
    \E i \in 1..Len(c.calls) :
        /\ c.calls[i] = PrimaryTier(c.op)
        /\ \A j \in 1..(i - 1) : c.calls[j] # FallbackTier(c.op)

StoreOf(tier) == IF tier = "firestore" THEN fs_docs ELSE local_file.data

EntriesOf(data, k) == SelectSeq(data, LAMBDA entry : entry.id = k)

(***************************************************************************)
(* Properties                                                              *)
(***************************************************************************)

\* C1: a facade whose chain ends in an always-ready fallback tier (local file
\* store, placeholder) never returns a failure result from create_list,
\* get_lists, embed_text_chunks, store_embeddings, query_rag,
\* get_calendar_events or create_calendar_event, whatever the primary tier
\* does on the call.
C1_NeverFailure ==
    last.op \in {"create_list", "get_lists", "embed_text_chunks",
                 "store_embeddings", "query_rag", "get_calendar_events",
                 "create_calendar_event"}
        => ~IsFailure(last)

\* the tier tag of a result: 'storage' for lists, 'source' for the calendar
TierTag(c) == IF c.op \in ListCalls THEN c.ret.storage ELSE c.ret.source

\* C2: the tier tag of every successful update_list, delete_list,
\* get_calendar_events and create_calendar_event names the tier that produced
\* the result, which is the primary tier when it was ready and did not raise
\* and the fallback tier otherwise.
C2_TierTagNamesServer ==
    (/\ last.op \in {"update_list", "delete_list", "get_calendar_events",
                     "create_calendar_event"}
     /\ last.ret.status = "success")
        => /\ TierTag(last) = last.served
           /\ TierTag(last) = last.calls[Len(last.calls)]
           /\ last.calls \in
                 IF last.pre.ready
                 THEN {<<PrimaryTier(last.op)>>,
                       <<PrimaryTier(last.op), FallbackTier(last.op)>>}
                 ELSE {<<FallbackTier(last.op)>>}

\* a successful update served by the local tier after Firestore raised
C2_Witness ==
    /\ last.op = "update_list"
    /\ last.ret.status = "success"
    /\ last.calls = <<"firestore", "local">>
    /\ last.ret.storage = "local"

\* storage_method reads "Vertex AI Vector Search (<index>)"
NamesVectorSearch(ret) ==
    ret.storage_method # <<>> /\ ret.storage_method[1] = "Vertex AI Vector Search"

\* C3: the tier identification returned by store_embeddings and query_rag
\* (storage, storage_method, method) names the tier that stored the vectors
\* or produced the answer, also when Vector Search is ready but raises.
C3_TierIdentification ==
    /\ last.op = "store_embeddings" =>
          /\ last.served = "vector_search" =>
                last.ret.storage = "vector_search" /\ NamesVectorSearch(last.ret)
          /\ last.served = "local_json" =>
                last.ret.storage = "local_json" /\ ~NamesVectorSearch(last.ret)
    /\ last.op = "query_rag" =>
          /\ last.served = "vector_search" =>
                last.ret.method = "vector_search" /\ NamesVectorSearch(last.ret)
          /\ last.served = "placeholder" =>
                last.ret.method = "local_search" /\ ~NamesVectorSearch(last.ret)

\* C4: when no tier performed the work of a create_list, get_lists,
\* update_list, delete_list or store_embeddings call, the result is a
\* failure, never a success-shaped value.
C4_ExhaustedIsFailure ==
    (/\ last.op \in {"create_list", "get_lists", "update_list", "delete_list",
                     "store_embeddings"}
     /\ last.served = "none")
        => IsFailure(last)

\* C5: with the Firestore tier ready, update_list or delete_list of an id that
\* Firestore does not hold answers not-found and does not consult the local
\* tier.
C5_FirestoreNotFoundTerminal ==
    (/\ last.op \in {"update_list", "delete_list"}
     /\ last.pre.ready
     /\ ~last.pre.in_fs)
        => /\ last.ret.status = "error"
           /\ last.ret.message = "List not found"
           /\ ~Invoked(last, "local")

\* C6: update_list of an id the local store does not hold, answered by the
\* local tier, returns status error with 'List not found', and no tier is
\* attempted after the local tier.  (When the file cannot be read the status
\* is error as well, with the exception's text as message.)
C6_LocalNotFound ==
    (/\ last.op = "update_list"
     /\ Invoked(last, "local")
     /\ ~last.pre.in_local)
        => /\ last.ret.status = "error"
           /\ last.served = "local" => last.ret.message = "List not found"
           /\ last.calls[Len(last.calls)] = "local"
           /\ ~last.pre.ready => last.calls = <<"local">>

\* update_list of an unknown id on a facade that runs on the local tier
C6_Witness ==
    /\ last.op = "update_list"
    /\ ~last.pre.ready
    /\ ~last.pre.in_local
    /\ last.served = "local"
    /\ last.ret.message = "List not found"

\* the call c ran initialize_firestore, which fell back to
\* initialize_local_storage (db is None): the constructor under a snapshot
\* that enables Firestore, or the method itself
InitFirestoreFailed(c) ==
    /\ \/ c.op = "EnhancedLists" /\ c.calls = <<"firestore">>
       \/ c.op = "initialize_firestore"
    /\ c.served = "local"
    /\ ~c.raised

\* C7: when the snapshot enables Firestore and initialize_firestore fails, the
\* facade runs on the local tier: get_list_status reports storage_method
\* local, and a following create_list returns a non-empty id, invokes the
\* local tier only and (the local file being readable and writable) leaves
\* the new list in the local store.
C7_DemotesToLocal ==
    [][InitFirestoreFailed(last)
        => /\ get_list_status(lists_service, local_file).storage_method = "local"
           /\ local_file.exists
           /\ last'.op = "create_list" =>
                 /\ last'.ret.id # 0
                 /\ last'.calls = <<"local">>
                 /\ last'.served = "local" =>
                       \E i \in 1..Len(local_file'.data) :
                           local_file'.data[i] =
                               NewList(last'.ret.id, last'.arg.user_id,
                                       last'.arg.name)]_vars

\* create_list("u1", "Groceries") served by the local tier of a facade whose
\* Firestore initialization failed under a snapshot that enables Firestore
C7_Witness ==
    /\ is_service_configured("firestore")
    /\ lists_service.obj = "built"
    /\ ~lists_service.firestore_configured
    /\ ~lists_service.db
    /\ last.op = "create_list"
    /\ last.arg.user_id = "u1"
    /\ last.arg.name = "Groceries"
    /\ last.served = "local"
    /\ last.ret.id \in KeysOf(local_file.data)

\* C8: a facade call on which the ready primary tier raises leaves the
\* readiness state of the facades unchanged, and the next call whose primary
\* is that tier tries it before its fallback.
C8_TransientKeepsReadiness ==
    [][/\ PrimaryRaised(last') =>
             /\ lists_service' = lists_service
             /\ rag_system' = rag_system
             /\ calendar_service' = calendar_service
       /\ (/\ PrimaryRaised(last)
           /\ last'.op \in FacadeCalls
           /\ PrimaryTier(last'.op) = PrimaryTier(last.op))
             => PrimaryFirst(last')]_vars

\* Firestore raised on a create_list and is still the ready primary tier
C8_Witness ==
    /\ last.op = "create_list"
    /\ PrimaryRaised(last)
    /\ last.calls = <<"firestore", "local">>
    /\ FirestoreReady(lists_service)

\* both calls were served by the same list store
SameTier(c, d) == c.served = d.served /\ c.served \in {"firestore", "local"}

\* C9: round trip on one tier.  A get_lists(u) that follows create_list(u, n)
\* on the same tier holds exactly one entry with the returned id, with name n
\* and no items; a get_lists of the owner that follows a successful
\* update_list(id, items) on the same tier holds exactly one entry with that
\* id, whose items are the given sequence.
C9_RoundTrip ==
    [][/\ (/\ last.op = "create_list"
           /\ last'.op = "get_lists"
           /\ last'.arg.user_id = last.arg.user_id
           /\ SameTier(last, last'))
             => EntriesOf(last'.ret.lists, last.ret.id) =
                    <<NewList(last.ret.id, last.arg.user_id, last.arg.name)>>
       /\ (/\ last.op = "update_list"
           /\ last.ret.status = "success"
           /\ last'.op = "get_lists"
           /\ SameTier(last, last')
           /\ \E i \in 1..Len(StoreOf(last.served)) :
                 /\ StoreOf(last.served)[i].id = last.arg.list_id
                 /\ StoreOf(last.served)[i].user_id = last'.arg.user_id)
             => /\ Len(EntriesOf(last'.ret.lists, last.arg.list_id)) = 1
                /\ EntriesOf(last'.ret.lists, last.arg.list_id)[1].items =
                       last.arg.items]_vars

\* get_lists returning a list whose items were written by update_list
C9_Witness ==
    /\ last.op = "get_lists"
    /\ last.served = "local"
    /\ \E i \in 1..Len(last.ret.lists) :
          /\ last.ret.lists[i].items = <<"eggs", "milk">>
          /\ last.ret.lists[i].user_id = last.arg.user_id

\* C10: no public operation of the three facades, construction and
\* initialization included, lets an exception reach its caller.
C10_NoExceptionEscapes == last.op \notin ConfigCalls => ~last.raised

\* a configuration file that exists was opened and failed to read or parse
ReadOrParseError(arg) ==
    \/ arg.config_file = "unreadable"
    \/ /\ arg.config_file = "absent"
       /\ arg.frontend_config_file = "unreadable"

\* C11: load_setup_status never raises, and when reading or parsing a
\* configuration file fails it returns the all-disabled default snapshot
\* (firestore, calendar, vertex_ai and vector_search all configured false).
C11_LoadDefaultsOnError ==
    last.op = "load_setup_status"
        => /\ ~last.raised
           /\ ReadOrParseError(last.arg) =>
                 /\ last.ret.snapshot = DefaultSnapshot
                 /\ \A sv \in Services : last.ret.snapshot[sv] # "on"

\* the snapshot holds no entry for the service
Absent(service_name) == setup_status[service_name] = "absent"

\* C12: under every snapshot load_setup_status can return, for a service
\* name absent from it is_service_configured returns false and
\* get_service_config returns an empty mapping, neither raising; a facade
\* constructed under such a snapshot is built and runs on its fallback tier.
C12_AbsentServiceIsDisabled ==
    /\ (last.op = "is_service_configured" /\ Absent(last.arg.service_name))
          => ~last.raised /\ last.ret.type = "bool" /\ ~last.ret.configured
    /\ (last.op = "get_service_config" /\ Absent(last.arg.service_name))
          => ~last.raised /\ last.ret.type = "dict" /\ last.ret.config = {}
    /\ (last.op = "EnhancedLists" /\ Absent("firestore"))
          => ~last.raised /\ lists_service.obj = "built"
                /\ ~FirestoreReady(lists_service)
    /\ (last.op = "EnhancedRAG" /\ Absent("vector_search"))
          => ~last.raised /\ rag_system.obj = "built"
                /\ ~rag_system.vector_search_configured
    /\ (last.op = "EnhancedCalendar" /\ Absent("calendar"))
          => ~last.raised /\ calendar_service.obj = "built"
                /\ ~CalendarReady(calendar_service)

\* the snapshot entry that enables the primary tier of a facade call
PrimaryService(op) ==
    CASE op \in ListCalls -> "firestore"
      [] op = "embed_text_chunks" -> "vertex_ai"
      [] op \in {"store_embeddings", "query_rag"} -> "vector_search"
      [] OTHER -> "calendar"

\* C13: after reload_config has replaced the snapshot, a facade call is
\* routed by the new snapshot: a service the current snapshot does not
\* enable is not used as the primary tier of the call.  (last is the
\* reload itself right after a reload, so a facade call in last was made
\* under the current snapshot.)
C13_ReloadRederivesReadiness ==
    (last.op \in FacadeCalls /\ last.calls # <<>>
       /\ last.calls[1] = PrimaryTier(last.op))
        => is_service_configured(PrimaryService(last.op))

\* the result names the mock (placeholder) tier as the one that answered
TagsMock(ret) ==
    /\ ret.method \in {"mock", "placeholder"}
    /\ ret.storage_method \notin
          {<<"Local JSON Storage">>, <<"Vertex AI Embeddings (Local Storage)">>}

\* C14: query_rag(q, owner) on a system in which no chunk was ever stored
\* and no remote tier is ready returns a non-empty answer that contains q,
\* the same for the same q, and tags the serving tier as the mock tier.
C14_MockAnswerTaggedMock ==
    (/\ last.op = "query_rag"
     /\ emb_file.data = <<>> /\ vs_index = <<>>
     /\ ~rag_system.vertex_ai_configured
     /\ ~rag_system.vector_search_configured)
        => /\ ~last.raised
           /\ last.ret.answer =
                  _query_placeholder(rag_system, emb_file, vs_index,
                                     last.arg.query, last.arg.user_id,
                                     <<>>).ret.answer
           /\ \E i \in 1..Len(last.ret.answer) :
                  last.ret.answer[i] = last.arg.query
           /\ last.served = "placeholder"
           /\ TagsMock(last.ret)

InitializeCalls ==
    {"initialize_firestore", "initialize_local_storage",
     "initialize_vertex_ai", "initialize_vector_search",
     "initialize_calendar_service"}

\* C15: an initialize method called a second time in the same environment
\* leaves the readiness state of the facade as the first call left it, and
\* does not change the contents of the local stores.
C15_InitializeIdempotent ==
    [][(last'.op \in InitializeCalls /\ last'.pre.again)
        => /\ lists_service' = lists_service
           /\ rag_system' = rag_system
           /\ calendar_service' = calendar_service
           /\ local_file' = local_file
           /\ emb_file' = emb_file
           /\ last'.raised = last.raised]_vars

\* initialize_firestore failing a second time over a local store that holds
\* a list
C15_Witness ==
    /\ last.op = "initialize_firestore"
    /\ last.pre.again
    /\ last.arg.e.client = "raise"
    /\ ~lists_service.firestore_configured
    /\ local_file.data # <<>>

\* C16: every result of get_calendar_events produced by the placeholder
\* tier is temporally coherent: every start is strictly later than the time
\* of the call (hour 0), starts strictly increase in list order, and every
\* end is later than its start.
C16_PlaceholderEventsCoherent ==
    (last.op = "get_calendar_events" /\ last.served = "placeholder")
        => LET events == last.ret.events IN
           /\ events # <<>>
           /\ \A i \in 1..Len(events) :
                 /\ events[i].start > 0
                 /\ events[i].end > events[i].start
                 /\ i < Len(events) => events[i].start < events[i + 1].start

\* the placeholder events returned after the ready Google Calendar raised
C16_Witness ==
    /\ last.op = "get_calendar_events"
    /\ last.calls = <<"google_calendar", "placeholder">>
    /\ Len(last.ret.events) = 3
    /\ last.ret.events[3].start = 60

\* C17: for every sequence of chunks, embed_text_chunks returns a sequence
\* of the same length whose i-th element carries the i-th chunk as text and
\* the id embedding_i (i from 0), whether Vertex AI or the placeholder
\* produced the vectors.
C17_EmbedTagsChunks ==
    last.op = "embed_text_chunks"
        => /\ ~last.raised
           /\ Len(last.ret.embeddings) = Len(last.arg.chunks)
           /\ \A i \in 1..Len(last.arg.chunks) :
                 /\ last.ret.embeddings[i].text = last.arg.chunks[i]
                 /\ last.ret.embeddings[i].id = i - 1
           /\ last.served \in {"vertex_ai", "mock_embedding"}

\* two different chunks embedded by Vertex AI
C17_Witness ==
    /\ last.op = "embed_text_chunks"
    /\ last.served = "vertex_ai"
    /\ last.arg.chunks = <<"c2", "c1">>
    /\ last.ret.embeddings[1].embedding = "vertex_ai"
    /\ last.ret.embeddings[1].text = "c2"

\* C18: the methods EnhancedRAG reports follow its readiness flags.
\* get_storage_method is "Local JSON Storage" when neither flag is set,
\* "Vertex AI Embeddings (Local Storage)" when only vertex_ai_configured is,
\* and "Vertex AI Vector Search (<index_name>)" whenever
\* vector_search_configured is; get_embedding_method is "Mock Embeddings"
\* when vertex_ai_configured is not set and "Vertex AI (<embedding_model>)"
\* when it is.
C18_MethodsFollowReadiness ==
    LET vertex_ai == rag_system.vertex_ai_configured
        vector_search == rag_system.vector_search_configured
    IN  /\ last.op = "get_storage_method" =>
              /\ ~last.raised
              /\ (~vertex_ai /\ ~vector_search) =>
                    last.ret.storage_method = <<"Local JSON Storage">>
              /\ (vertex_ai /\ ~vector_search) =>
                    last.ret.storage_method =
                        <<"Vertex AI Embeddings (Local Storage)">>
              /\ vector_search =>
                    last.ret.storage_method =
                        <<"Vertex AI Vector Search", "penny-assistant-index">>
        /\ last.op = "get_embedding_method" =>
              /\ ~last.raised
              /\ ~vertex_ai => last.ret.embedding_method = <<"Mock Embeddings">>
              /\ vertex_ai =>
                    last.ret.embedding_method =
                        <<"Vertex AI", "textembedding-gecko@001">>

\* the request of a client call failed: connection refused, timeout, HTTP
\* error status, or a body that is not JSON
RequestFailed(resp) ==
    \/ resp.exc # "none"
    \/ resp.status_code >= 400
    \/ resp.body = "malformed"

SafeCalls ==
    {"utils.create_list", "utils.update_list", "utils.delete_list",
     "utils.get_calendar_events", "utils.health_check"}

\* C19: in the Streamlit client, when the backend request fails, get_lists
\* returns an empty list and never an error object, while create_list,
\* update_list, delete_list, get_calendar_events and health_check return a
\* dict with the key "error"; none of them raises.
C19_ClientFailureResults ==
    (last.op \in SafeCalls \cup {"utils.get_lists"}
       /\ RequestFailed(last.arg.response))
        => /\ ~last.raised
           /\ last.op = "utils.get_lists" =>
                 /\ last.ret.type = "list"
                 /\ last.ret.count = 0
                 /\ "error" \notin last.ret.keys
           /\ last.op \in SafeCalls =>
                 /\ last.ret.type = "dict"
                 /\ "error" \in last.ret.keys

\* create_list answered with HTTP status 500
C19_Witness ==
    /\ last.op = "utils.create_list"
    /\ last.arg.response.status_code = 500
    /\ last.ret.keys = {"error"}
    /\ last.ret.message = "Network error"

PlaceholderCalls == {"utils.chat", "utils.get_memory", "utils.evaluate"}

PlaceholderKey(op) ==
    CASE op = "utils.chat" -> "response"
      [] op = "utils.get_memory" -> "memory"
      [] OTHER -> "metrics"

\* the result is the payload the backend sent
BackendPayload(ret) == ret.type = "list" \/ "backend" \in ret.keys
                           \/ "lists" \in ret.keys

\* the backend answered the request with status 200
Answered200(resp) == resp.exc = "none" /\ resp.status_code = 200

C21_BackendStatusClassifies ==
    [][(backend' = backend /\ last'.op = "utils.get_backend_status")
          => /\ ~last'.raised
             /\ last'.ret.status = "healthy"
                    <=> ~RequestFailed(last'.arg.response)
             /\ backend' = "down" => last'.ret.status = "unreachable"]_vars

\* down -> up -> down: three calls returned unreachable, healthy, unreachable
C21_Witness ==
    /\ last.op = "utils.get_backend_status"
    /\ backend = "down"
    /\ last.pre.earlier = <<"unreachable", "healthy">>
    /\ last.ret.status = "unreachable"
    /\ IsInstance(last.arg.response.exc, "ConnectionError")

\* C22: GCPManager caches per instance.  Once get_credentials has succeeded
\* on a manager, no later get_credentials call on it invokes
\* google.auth.default, and each returns the same credentials object and
\* the same project; a configured project_id is never replaced by the
\* detected project; once get_client_info has returned, every call returns
\* the same ClientInfo object; a call on one manager leaves the other alone.
C22_ManagerCaches ==
    [][LET m == last'.arg.manager
           before == gcp_managers[m]
           after == gcp_managers'[m]
       IN /\ last'.op = "get_credentials" =>
                /\ before._credentials # 0 =>
                      /\ last'.calls = <<>>
                      /\ ~last'.raised
                      /\ last'.ret.credentials = before._credentials
                      /\ last'.ret.project = before.project_id
                /\ before.project_id # "None" =>
                      after.project_id = before.project_id
                /\ ~last'.raised =>
                      /\ last'.ret.credentials = after._credentials
                      /\ last'.ret.credentials # 0
                      /\ last'.ret.project = after.project_id
          /\ last'.op = "get_client_info" =>
                /\ before._client_info # 0 =>
                      /\ last'.calls = <<>>
                      /\ ~last'.raised
                      /\ last'.ret.client_info = before._client_info
                /\ ~last'.raised =>
                      /\ last'.ret.client_info = after._client_info
                      /\ last'.ret.client_info # 0
          /\ last'.op \in {"get_credentials", "get_client_info"} =>
                \A o \in Managers \ {m} :
                    gcp_managers'[o] = gcp_managers[o]]_vars

\* a second get_credentials on the manager with a configured project, while
\* google.auth.default would detect another project: answered from the cache
C22_Witness ==
    /\ last.op = "get_credentials"
    /\ last.arg.manager = "manager"
    /\ last.pre.cached
    /\ last.arg.auth = [outcome |-> "ok", project |-> "other"]
    /\ last.calls = <<>>
    /\ last.ret.project = "configured"
    /\ last.ret.credentials = gcp_managers["manager"]._credentials
    /\ gcp_managers["_default_manager"]._credentials
           \notin {0, last.ret.credentials}
    /\ gcp_managers["manager"]._client_info # 0

\* s without its leading and its trailing newlines
RECURSIVE Stripped(_)
Stripped(s) ==
    IF startswith(s, "\n") THEN Stripped(Tail(s))
    ELSE IF endswith(s, "\n") THEN Stripped(SubSeq(s, 1, Len(s) - 1))
    ELSE s

\* C23: clean_text returns None and the empty string unchanged; for every
\* other text the result is the text without its leading and trailing
\* newlines, every other character kept, so it neither starts nor ends with
\* a newline, and cleaning the result again returns it unchanged.
C23_CleanTextStrips ==
    last.op = "clean_text"
        => /\ (last.arg.text.is_none \/ last.arg.text.s = <<>>)
                  => last.ret.text = last.arg.text
           /\ ~last.arg.text.is_none =>
                 /\ ~startswith(last.ret.text.s, "\n")
                 /\ ~endswith(last.ret.text.s, "\n")
                 /\ last.ret.text = Str(Stripped(last.arg.text.s))
           /\ clean_text(last.ret.text) = last.ret.text

\* the tiers a call may invoke, by rank: the tiers of its operation and,
\* for query_rag, the tiers of the embedding step
TiersOf(op) ==
    IF op = "query_rag"
    THEN <<"vertex_ai", "mock_embedding", "vector_search", "placeholder">>
    ELSE <<PrimaryTier(op), FallbackTier(op)>>

\* the readiness flag of a tier of the RAG facade
RagTierReady(tier) ==
    CASE tier = "vertex_ai" -> rag_system.vertex_ai_configured
      [] tier = "vector_search" -> rag_system.vector_search_configured
      [] OTHER -> TRUE

\* C24: on every facade call the tiers are tried in rank order: the primary
\* tier is invoked only when it is ready, the fallback tier only when the
\* primary tier was not ready or raised on this call, and never before the
\* primary tier; within query_rag the Vertex AI embedding tier is invoked
\* only when vertex_ai is ready.
C24_TiersInRankOrder ==
    last.op \in FacadeCalls
        => /\ Invoked(last, PrimaryTier(last.op)) => last.pre.ready
           /\ Invoked(last, FallbackTier(last.op)) =>
                 (~last.pre.ready \/ PrimaryRaised(last))
           /\ (/\ Invoked(last, PrimaryTier(last.op))
               /\ Invoked(last, FallbackTier(last.op))) => PrimaryFirst(last)
           /\ \A i \in 1..Len(last.calls) :
                  \E k \in 1..Len(TiersOf(last.op)) :
                      last.calls[i] = TiersOf(last.op)[k]
           /\ last.op \in RagCalls =>
                 \A i \in 1..Len(last.calls) : RagTierReady(last.calls[i])

\* C25: over the facade calls after construction no readiness flag changes
\* from false to true, and a call never invokes the client of a tier whose
\* flag is false (its initialization failed, or it is not configured).
C25_NotReadyStaysNotReady ==
    [][last'.op \in FacadeCalls
          => /\ lists_service'.firestore_configured
                    => lists_service.firestore_configured
             /\ rag_system'.vertex_ai_configured
                    => rag_system.vertex_ai_configured
             /\ rag_system'.vector_search_configured
                    => rag_system.vector_search_configured
             /\ calendar_service'.calendar_configured
                    => calendar_service.calendar_configured
             /\ ~lists_service.firestore_configured
                    => ~Invoked(last', "firestore")
             /\ ~rag_system.vertex_ai_configured
                    => ~Invoked(last', "vertex_ai")
             /\ ~rag_system.vector_search_configured
                    => ~Invoked(last', "vector_search")
             /\ ~calendar_service.calendar_configured
                    => ~Invoked(last', "google_calendar")]_vars

\* the call of thread t completed its change of the store
Completed(t) ==
    /\ threads[t].pc = "returned"
    /\ threads[t].status \in {"created", "success"}

\* another thread's completed call changed or removed the same list
Overridden(t) ==
    \E o \in Threads \ {t} :
        /\ Completed(o)
        /\ threads[o].op \in {"update_list", "delete_list"}
        /\ threads[o].list_id = threads[t].list_id

\* C26: no completed update of the local store is lost, also when the steps
\* of two request threads interleave: once both calls have returned, every
\* create_list that returned has its list in the store, every list updated
\* holds the items of its update and every list deleted is gone, unless the
\* other call changed or removed that same list.
C26_NoLostUpdate ==
    (\A t \in DOMAIN threads : threads[t].pc = "returned")
        => \A t \in DOMAIN threads :
              /\ (threads[t].op = "create_list" /\ ~Overridden(t)) =>
                    /\ file_bytes = "json"
                    /\ threads[t].list_id \in KeysOf(local_file.data)
              /\ (Completed(t) /\ threads[t].op = "update_list"
                     /\ ~Overridden(t)) =>
                    /\ file_bytes = "json"
                    /\ \E i \in 1..Len(local_file.data) :
                          /\ local_file.data[i].id = threads[t].list_id
                          /\ local_file.data[i].items = threads[t].items
              /\ (Completed(t) /\ threads[t].op = "delete_list") =>
                    /\ file_bytes = "json"
                    /\ threads[t].list_id \notin KeysOf(local_file.data)

C28_LocalListsOfUser ==
    [][LET store == local_file.data
           ls == last'.ret.lists
       IN /\ (last'.op = "get_lists" /\ last'.served = "local") =>
                /\ \A i \in 1..Len(ls) :
                      /\ ls[i].user_id = last'.arg.user_id
                      /\ \E j \in 1..Len(store) : store[j] = ls[i]
                      /\ \A j \in 1..Len(ls) : i < j => ls[i].id < ls[j].id
                /\ \A j \in 1..Len(store) :
                      store[j].user_id = last'.arg.user_id =>
                          \E i \in 1..Len(ls) : ls[i] = store[j]
                /\ local_file' = local_file
          /\ \A id \in 1..(next_id - 1) :
                id \notin KeysOf(store) => id \notin KeysOf(local_file'.data)
          /\ (/\ last'.op = "delete_list"
              /\ last'.served = "local"
              /\ last'.arg.list_id \notin KeysOf(store)) =>
                /\ last'.ret.status = "error"
                /\ last'.ret.message = "List not found"
                /\ local_file' = local_file]_vars

\* get_lists of one user on a local store that also holds a list of the
\* other user
C28_Witness ==
    /\ last.op = "get_lists"
    /\ last.served = "local"
    /\ ~FirestoreReady(lists_service)
    /\ Len(last.ret.lists) = 1
    /\ Len(local_file.data) = 2
    /\ \E j \in 1..2 : local_file.data[j].user_id # last.arg.user_id

\* C29: whichever tier serves it, get_calendar_events(user_id, max_results)
\* returns at most max_results events, and its count is the number of
\* events returned.
C29_AtMostMaxResults ==
    last.op = "get_calendar_events"
        => /\ Len(last.ret.events) <= last.arg.max_results
           /\ last.ret.count = Len(last.ret.events)

\* C30: the stored_count that store_embeddings returns is the number of
\* records the serving tier persisted on the call: the local file, or the
\* index, grows by exactly stored_count records, and stored_count is 0 when
\* no tier persisted anything.
C30_StoredCountIsPersisted ==
    [][(last'.op = "store_embeddings" /\ ~last'.raised)
          => /\ last'.served = "local_json" =>
                   Len(emb_file'.data) =
                       Len(emb_file.data) + last'.ret.stored_count
             /\ last'.served = "vector_search" =>
                   Len(vs_index') = Len(vs_index) + last'.ret.stored_count
             /\ last'.served = "none" =>
                   /\ last'.ret.stored_count = 0
                   /\ emb_file' = emb_file]_vars

====
